---- MODULE Spec2Model ----
(***************************************************************************)
(* Verification model of the coderr marketplace backend: the role and      *)
(* ownership gates of core/permissions.py and the offer, order and review  *)
(* handlers (views + serializers) acting on the persisted rows.            *)
(*                                                                         *)
(* Three specifications share the variables:                               *)
(*   SpecRole    - the role gates applied to users whose role fields are   *)
(*                 drawn from every modelled representation;               *)
(*   Spec        - offer create / update / delete, order create and order  *)
(*                 status update, each request one atomic handler;         *)
(*   SpecReviews - review creation split at the persistence boundary       *)
(*                 (pre-check read, then insert) so that requests          *)
(*                 interleave.                                             *)
(***************************************************************************)
EXTENDS Integers, Sequences, FiniteSets, TLC

VARIABLES
    users,      \* auth_user rows with the attached profile: id -> record
    offers,     \* offers_offer rows: id -> record
    details,    \* offers_offerdetail rows: id -> record
    orders,     \* orders_order rows: id -> record
    reviews,    \* reviews_review rows: id -> record
    pending,    \* review-create requests between validate() and create()
    seq,        \* the auto-increment counters of the tables
    resp,       \* the response of the last handled request
    steps       \* number of requests handled so far

vars == <<users, offers, details, orders, reviews, pending, seq, resp, steps>>

-----------------------------------------------------------------------------
(* Bounds *)

MaxSteps == 4
MaxReviewSteps == 6

-----------------------------------------------------------------------------
(* Strings whose characters matter (role values) are sequences of          *)
(* one-character strings, so that strip() and lower() are computed.        *)

UpperChars == <<"A","B","C","D","E","F","G","H","I","J","K","L","M",
                "N","O","P","Q","R","S","T","U","V","W","X","Y","Z">>
LowerChars == <<"a","b","c","d","e","f","g","h","i","j","k","l","m",
                "n","o","p","q","r","s","t","u","v","w","x","y","z">>
Whitespace == {" ", "\t", "\n"}

\* The lower-case form of every upper-case letter.
LowerMap ==
    [c \in {UpperChars[i] : i \in 1..Len(UpperChars)} |->
        LowerChars[CHOOSE i \in 1..Len(UpperChars) : UpperChars[i] = c]]

LowerChar(c) == IF c \in DOMAIN LowerMap THEN LowerMap[c] ELSE c

\* str.lower()
StrLower(s) == [i \in 1..Len(s) |-> LowerChar(s[i])]

\* str.strip()
StrStrip(s) ==
    LET keep == {i \in 1..Len(s) : s[i] \notin Whitespace}
    IN  IF keep = {} THEN <<>>
        ELSE LET lo == CHOOSE i \in keep : \A j \in keep : i <= j
                 hi == CHOOSE i \in keep : \A j \in keep : j <= i
             IN  SubSeq(s, lo, hi)

S_business == <<"b","u","s","i","n","e","s","s">>
S_customer == <<"c","u","s","t","o","m","e","r">>
S_biz      == <<"b","i","z">>

(* A role value as Python sees it: None, a str or an int. *)
PyNone   == [k |-> "none"]
PyStr(s) == [k |-> "str", s |-> s]
PyInt(n) == [k |-> "int", n |-> n]

\* str.replace(" ", ""): every whitespace character removed
StrRemoveSpaces(s) ==
    LET F[i \in 0..Len(s)] ==
            IF i = 0 THEN <<>>
            ELSE IF s[i] \in Whitespace THEN F[i-1] ELSE Append(F[i-1], s[i])
    IN  F[Len(s)]

\* _normalize with inner whitespace removed as well, not only stripped
_normalize_RemovesInnerSpaces(val) ==
    IF val.k = "str" THEN StrLower(StrRemoveSpaces(val.s))
    ELSE <<>>

\* A structured role value (enum-like): the attributes it has, by name, and
\* the text str() gives for it.
PyObj(attrs, repr) == [k |-> "obj", attrs |-> attrs, repr |-> repr]

\* core/permissions.py: _normalize (called on non-None values that are
\* strings or structured): str(val).strip().lower()
_normalize(val) ==
    IF val.k = "str" THEN StrLower(StrStrip(val.s))
    ELSE IF val.k = "obj" THEN StrLower(StrStrip(val.repr))
    ELSE <<>>

\* core/permissions.py: the default of probe_attrs
probe_attrs == <<"name", "label", "value", "code", "slug", "key", "type">>

\* core/permissions.py: _is_any_role.  On a structured candidate the loop
\* goes through every probe attribute that is present and returns True at
\* the first whose value matches; when none matches the stringification of
\* the candidate decides.
RECURSIVE _is_any_role(_, _, _)
_is_any_role(candidate, accepted_strings, accepted_numbers) ==
    IF candidate.k = "none" THEN FALSE
    ELSE IF candidate.k = "str"
         THEN _normalize(candidate) \in {StrLower(s) : s \in accepted_strings}
    ELSE IF candidate.k = "int"
         THEN candidate.n \in accepted_numbers
    ELSE \/ \E i \in 1..Len(probe_attrs) :
                /\ probe_attrs[i] \in DOMAIN candidate.attrs
                /\ _is_any_role(candidate.attrs[probe_attrs[i]],
                                accepted_strings, accepted_numbers)
         \/ _normalize(candidate) \in {StrLower(s) : s \in accepted_strings}

-----------------------------------------------------------------------------
(* Users.  A user row carries the direct role field `type`; the attached   *)
(* profile, when there is one, carries its own `type`.  Actor 0 is the     *)
(* anonymous (unauthenticated) requester.                                  *)

Anon == 0

NoProfile      == [exists |-> FALSE, type |-> PyNone]
Profile(t)     == [exists |-> TRUE, type |-> t]
User(t, p)     == [type |-> t, profile |-> p]

\* core/permissions.py: _user_is_authenticated
_user_is_authenticated(actor) == actor \in DOMAIN users

\* _safe_get(user, "type")
UserRole(actor) == users[actor].type

\* _safe_get(_safe_get(user, "profile"), "type"): None when no profile row
ProfileRole(actor) ==
    IF users[actor].profile.exists THEN users[actor].profile.type ELSE PyNone

\* core/permissions.py: _user_matches_role
_user_matches_role(actor, role_strings, role_numbers) ==
    IF _is_any_role(UserRole(actor), role_strings, role_numbers) THEN TRUE
    ELSE _is_any_role(ProfileRole(actor), role_strings, role_numbers)

\* core/permissions.py: RolePermission.has_permission
RolePermission_has_permission(actor, role_strings, role_numbers) ==
    IF ~_user_is_authenticated(actor) THEN FALSE
    ELSE _user_matches_role(actor, role_strings, role_numbers)

\* a business gate that asks for authentication only
IsBusinessUser_AnyAuthenticated(actor) == _user_is_authenticated(actor)

\* core/permissions.py: IsBusinessUser
IsBusinessUser(actor) ==
    RolePermission_has_permission(actor, {S_business, S_biz}, {2})

\* core/permissions.py: IsCustomerUser
IsCustomerUser(actor) ==
    RolePermission_has_permission(actor, {S_customer}, {})

\* core/permissions.py: IsAuthenticatedOnly / IsOwner.has_permission
IsAuthenticatedOnly(actor) == _user_is_authenticated(actor)

-----------------------------------------------------------------------------
(* SpecRole: the gates applied to one user whose two role fields are drawn *)
(* from the representations a role can take.                               *)

RoleStrings ==
    { S_business, S_customer, S_biz,
      <<"B","u","s","i","n","e","s","s">>,
      <<" ","b","u","s","i","n","e","s","s"," ">>,
      <<"B","I","Z">>,
      <<"C","u","s","t","o","m","e","r">>,
      <<"b","u","s","i","n","e","s">>,
      <<"b"," ","u","s","i","n","e","s","s">>,
      <<"2">>,
      <<>> }

RoleNumbers == 0..3

RoleValues ==
    {PyNone} \cup {PyStr(s) : s \in RoleStrings} \cup {PyInt(n) : n \in RoleNumbers}

ProfileValues == {NoProfile} \cup {Profile(t) : t \in RoleValues}

NoResp == [op |-> "none", outcome |-> "none", detail |-> "", fields |-> {}, writes |-> 0]

\* A response: the operation, its outcome, the error it carries, the payload
\* keys the error message names, and the number of write statements the
\* handler attempted.
ResponseNaming(op, outcome, detail, fields, writes) ==
    [op |-> op, outcome |-> outcome, detail |-> detail, fields |-> fields, writes |-> writes]

Response(op, outcome, detail, writes) == ResponseNaming(op, outcome, detail, {}, writes)

InitRole ==
    /\ users \in [{1} -> {User(t, p) : t \in RoleValues, p \in ProfileValues}]
    /\ offers = <<>>
    /\ details = <<>>
    /\ orders = <<>>
    /\ reviews = <<>>
    /\ pending = <<>>
    /\ seq = [offer |-> 1, detail |-> 1, order |-> 1, review |-> 1, request |-> 1]
    /\ resp = NoResp
    /\ steps = 0

GateOutcome(actor, allowed) ==
    IF allowed THEN Response("", "Allow", "", 0)
    ELSE IF ~_user_is_authenticated(actor)
         THEN Response("", "Deny", "unauthenticated", 0)
    ELSE Response("", "Deny", "role", 0)

\* A request passes through the business role gate.
BusinessGateRequest(actor) ==
    /\ resp' = [GateOutcome(actor, IsBusinessUser(actor)) EXCEPT !.op = "gate_business"]
    /\ UNCHANGED <<users, offers, details, orders, reviews, pending, seq, steps>>

\* A request passes through the customer role gate.
CustomerGateRequest(actor) ==
    /\ resp' = [GateOutcome(actor, IsCustomerUser(actor)) EXCEPT !.op = "gate_customer"]
    /\ UNCHANGED <<users, offers, details, orders, reviews, pending, seq, steps>>

NextRole ==
    \/ \E actor \in DOMAIN users \cup {Anon} : BusinessGateRequest(actor)
    \/ \E actor \in DOMAIN users \cup {Anon} : CustomerGateRequest(actor)

SpecRole == InitRole /\ [][NextRole]_vars

(* The role values that denote the business role: the string in any letter *)
(* case and with surrounding blanks, its legacy alias, the numeric code.   *)
BusinessRepresentations ==
    { PyStr(S_business),
      PyStr(<<"B","u","s","i","n","e","s","s">>),
      PyStr(<<" ","b","u","s","i","n","e","s","s"," ">>),
      PyStr(S_biz),
      PyStr(<<"B","I","Z">>),
      PyInt(2) }

NotBusiness(u) ==
    /\ UserRole(u) \notin BusinessRepresentations
    /\ ProfileRole(u) \notin BusinessRepresentations

\* C1: a user neither of whose role fields (direct field, profile field;
\* string or numeric code) denotes business is denied by the business role
\* gate, and the response of a business-gate request by that user is Deny.
C1_NonBusinessDenied ==
    \A u \in DOMAIN users :
        NotBusiness(u) =>
            /\ ~IsBusinessUser(u)
            /\ resp.op = "gate_business" => resp.outcome = "Deny"

\* C1 witness: the gate has denied a user with numeric code 1 and a
\* customer profile.
C1_Witness ==
    /\ resp = Response("gate_business", "Deny", "role", 0)
    /\ users[1] = User(PyInt(1), Profile(PyStr(S_customer)))

-----------------------------------------------------------------------------
(* Spec: the offer and order handlers.                                     *)
(*                                                                         *)
(* The user population: a business with a business profile, a customer     *)
(* with a customer profile, and a user whose direct role field says        *)
(* customer while the attached profile row says business (the two columns  *)
(* are written independently; nothing in the handlers keeps them equal).   *)

MainUsers ==
    (1 :> User(PyStr(S_business), Profile(PyStr(S_business)))) @@
    (2 :> User(PyStr(S_customer), Profile(PyStr(S_customer)))) @@
    (3 :> User(PyStr(S_customer), Profile(PyStr(S_business))))

Actors == DOMAIN users \cup {Anon}

\* offers/models.py: OfferDetail.OFFER_TYPE_CHOICES
OFFER_TYPE_CHOICES == {"basic", "standard", "premium"}

\* orders/models.py: Order.STATUS_CHOICES
STATUS_IN_PROGRESS == "in_progress"
STATUS_COMPLETED   == "completed"
STATUS_CANCELLED   == "cancelled"
STATUS_CHOICES == {STATUS_IN_PROGRESS, STATUS_COMPLETED, STATUS_CANCELLED}

\* The mutable fields of an OfferDetail, in the order update() walks them.
DetailFields == <<"title", "revisions", "delivery_time_in_days", "price", "features">>
\* The top-level fields of an Offer, in the order update() walks them.
OfferFields == <<"title", "image", "description">>

Range(f) == {f[i] : i \in DOMAIN f}

\* Adds row r under key id / removes the rows whose keys are in ids.
Insert(table, id, r) == [i \in DOMAIN table \cup {id} |-> IF i = id THEN r ELSE table[i]]
Delete(table, ids)   == [i \in DOMAIN table \ ids |-> table[i]]

(* One detail of an offer-create payload. *)
DetailInput(t) ==
    [ offer_type |-> t,
      title |-> "plan",
      revisions |-> 1,
      delivery_time_in_days |-> 3,
      price |-> IF t = "basic" THEN 10 ELSE IF t = "standard" THEN 20 ELSE 30,
      features |-> <<"logo">> ]

DetailLists ==
    { <<DetailInput("basic"), DetailInput("standard"), DetailInput("premium")>>,
      <<DetailInput("basic"), DetailInput("standard")>>,
      <<DetailInput("basic"), DetailInput("standard"), DetailInput("premium"),
        DetailInput("basic")>>,
      <<DetailInput("basic"), DetailInput("basic"), DetailInput("premium")>>,
      <<DetailInput("basic"), DetailInput("standard"), DetailInput("deluxe")>> }

OfferCreatePayloads ==
    { [title |-> "t1", description |-> "d1", details |-> ds] : ds \in DetailLists }

\* _validate_features_list that lets every list pass
_validate_features_list_AcceptsBlank(value) == TRUE

\* offers/api/serializers.py: _validate_features_list on a list of strings:
\* every x has a non-empty x.strip()
_validate_features_list(value) == \A i \in 1..Len(value) : value[i] \notin {"", " "}

\* offers/api/serializers.py: OfferDetailSerializer.validate
OfferDetailSerializer_validate(attrs) ==
    IF attrs.revisions < 0 THEN "revisions"
    ELSE IF attrs.delivery_time_in_days <= 0 THEN "delivery_time_in_days"
    ELSE IF attrs.price < 0 THEN "price"
    ELSE "ok"

\* offers/api/serializers.py: OfferDetailSerializer on one nested detail: the
\* fields of the model (offer_type a choice field, revisions and
\* delivery_time_in_days positive integer fields with minimum 0),
\* validate_features, then validate().
OfferDetailSerializer_is_valid(d) ==
    /\ d.offer_type \in OFFER_TYPE_CHOICES
    /\ d.revisions >= 0
    /\ d.delivery_time_in_days >= 0
    /\ _validate_features_list(d.features)
    /\ OfferDetailSerializer_validate(d) = "ok"

\* validate_details without the comparison of the tiers with one another
validate_details_NoDuplicateCheck(value) ==
    IF Len(value) # 3 THEN "details_count"
    ELSE IF \E i \in 1..Len(value) : value[i].offer_type \notin OFFER_TYPE_CHOICES
         THEN "details_invalid_offer_type"
    ELSE "ok"

\* offers/api/serializers.py: OfferSerializer.validate_details
validate_details(value) ==
    IF Len(value) # 3 THEN "details_count"
    ELSE IF \E i \in 1..Len(value) : value[i].offer_type \notin OFFER_TYPE_CHOICES
         THEN "details_invalid_offer_type"
    ELSE IF Cardinality({value[i].offer_type : i \in 1..Len(value)}) # Len(value)
         THEN "details_duplicate_offer_type"
    ELSE "ok"

\* OfferSerializer.is_valid: the nested details are validated item by item,
\* then validate_details runs on the validated list.
OfferSerializer_is_valid(data) ==
    IF \E i \in 1..Len(data.details) : ~OfferDetailSerializer_is_valid(data.details[i])
    THEN "details_invalid_item"
    ELSE validate_details(data.details)

\* Body of OfferSerializer.create: Offer.objects.create, then bulk_create of
\* the details; storage_fails makes the bulk insert raise.  The result holds
\* the tables as the statements executed so far have left them.
OfferSerializer_create_body(actor, data, storage_fails) ==
    LET oid == seq.offer
        offers1 == Insert(offers, oid,
                     [ owner |-> actor, title |-> data.title, image |-> "",
                       description |-> data.description ])
        n == Len(data.details)
        ids == seq.detail .. (seq.detail + n - 1)
        details1 == [ i \in DOMAIN details \cup ids |->
                        IF i \in ids
                        THEN data.details[i - seq.detail + 1] @@ [offer |-> oid]
                        ELSE details[i] ]
    IN  IF storage_fails
        THEN [ ok |-> FALSE, offers |-> offers1, details |-> details,
               seq |-> [seq EXCEPT !.offer = oid + 1] ]
        ELSE [ ok |-> TRUE, offers |-> offers1, details |-> details1,
               seq |-> [seq EXCEPT !.offer = oid + 1, !.detail = seq.detail + n] ]

\* create without the @transaction.atomic decorator: the rows written before
\* the failure stay
OfferSerializer_create_NotAtomic(actor, data, storage_fails) ==
    OfferSerializer_create_body(actor, data, storage_fails)

\* offers/api/serializers.py: OfferSerializer.create under
\* @transaction.atomic: an exception undoes the rows written so far.
OfferSerializer_create(actor, data, storage_fails) ==
    LET r == OfferSerializer_create_body(actor, data, storage_fails)
    IN  IF r.ok THEN r
        ELSE [ ok |-> FALSE, offers |-> offers, details |-> details, seq |-> seq ]

Unchanged_rows == UNCHANGED <<users, offers, details, orders, reviews, pending, seq>>

\* POST /api/offers/  (OfferListCreateView, permissions IsAuthenticated and
\* IsBusinessUser, serializer OfferSerializer)
OfferCreate(actor, data, storage_fails) ==
    /\ steps < MaxSteps
    /\ steps' = steps + 1
    /\ IF ~_user_is_authenticated(actor)
       THEN /\ resp' = Response("offer_create", "NotAuthenticated", "", 0)
            /\ Unchanged_rows
       ELSE IF ~IsBusinessUser(actor)
       THEN /\ resp' = Response("offer_create", "PermissionDenied", "role", 0)
            /\ Unchanged_rows
       ELSE IF OfferSerializer_is_valid(data) # "ok"
       THEN /\ resp' = Response("offer_create", "ValidationError",
                                OfferSerializer_is_valid(data), 0)
            /\ Unchanged_rows
       ELSE LET r == OfferSerializer_create(actor, data, storage_fails)
            IN  /\ offers' = r.offers
                /\ details' = r.details
                /\ seq' = r.seq
                /\ resp' = IF r.ok THEN Response("offer_create", "ok", "", 2)
                           ELSE Response("offer_create", "ServerError", "storage", 2)
                /\ UNCHANGED <<users, orders, reviews, pending>>

(* A PATCH payload.  `keys` is the set of keys present in the JSON body;   *)
(* a field whose key is absent is never read.                              *)
NoItem ==
    [ keys |-> {}, offer_type |-> "", title |-> "", revisions |-> 0,
      delivery_time_in_days |-> 0, price |-> 0, features |-> <<>> ]

NoPatch ==
    [ keys |-> {}, title |-> "", image |-> "", description |-> "", details |-> <<>> ]

ItemBasicPrice ==
    [NoItem EXCEPT !.keys = {"offer_type", "price"}, !.offer_type = "basic", !.price = 9]
ItemBasicPriceFeatures ==
    [NoItem EXCEPT !.keys = {"offer_type", "price", "features"},
                   !.offer_type = "basic", !.price = 7, !.features = <<"seo", "logo">>]
ItemStandardTitle ==
    [NoItem EXCEPT !.keys = {"offer_type", "title", "revisions"},
                   !.offer_type = "standard", !.title = "pro", !.revisions = 0]
ItemDeluxe ==
    [NoItem EXCEPT !.keys = {"offer_type", "title"}, !.offer_type = "deluxe", !.title = "pro"]
ItemNoType ==
    [NoItem EXCEPT !.keys = {"title"}, !.title = "pro"]

OfferPatchPayloads ==
    { [NoPatch EXCEPT !.keys = {"title"}, !.title = "t2"],
      [NoPatch EXCEPT !.keys = {"description", "image"}, !.description = "d2", !.image = "i2"],
      [NoPatch EXCEPT !.keys = {"details"}, !.details = <<ItemBasicPrice>>],
      [NoPatch EXCEPT !.keys = {"title", "details"}, !.title = "t2",
                      !.details = <<ItemStandardTitle>>],
      [NoPatch EXCEPT !.keys = {"title", "details"}, !.title = "t2",
                      !.details = <<ItemBasicPrice, ItemDeluxe>>],
      [NoPatch EXCEPT !.keys = {"details"},
                      !.details = <<ItemBasicPrice, ItemBasicPriceFeatures>>],
      [NoPatch EXCEPT !.keys = {"title", "details"}, !.title = "t2",
                      !.details = <<ItemBasicPrice, ItemNoType>>] }

\* offers/api/serializers.py: OfferDetailPatchItemSerializer (one item).  The
\* serializer is nested in a partial update, in which a field whose key is
\* absent is skipped, offer_type included.
OfferDetailPatchItemSerializer_is_valid(item) ==
    IF "offer_type" \in item.keys /\ item.offer_type \notin OFFER_TYPE_CHOICES
    THEN "details_invalid_choice"
    ELSE IF "title" \in item.keys /\ item.title = "" THEN "details_title_blank"
    ELSE IF "revisions" \in item.keys /\ item.revisions < 0 THEN "details_revisions_min"
    ELSE IF "delivery_time_in_days" \in item.keys /\ item.delivery_time_in_days < 1
         THEN "details_delivery_min"
    ELSE IF "price" \in item.keys /\ item.price < 0 THEN "details_price_min"
    ELSE IF "features" \in item.keys /\ ~_validate_features_list(item.features)
         THEN "details_features"
    ELSE "ok"

\* OfferUpdateSerializer.is_valid (partial): the top-level fields, then the
\* items of `details` in order; the first error is reported.
OfferUpdateSerializer_is_valid(data) ==
    IF "title" \in data.keys /\ data.title = "" THEN "title_blank"
    ELSE IF "details" \notin data.keys THEN "ok"
    ELSE LET bad == {i \in 1..Len(data.details) :
                        OfferDetailPatchItemSerializer_is_valid(data.details[i]) # "ok"}
         IN  IF bad = {} THEN "ok"
             ELSE OfferDetailPatchItemSerializer_is_valid(
                      data.details[CHOOSE i \in bad : \A j \in bad : i <= j])

\* The fields of `names` present in `src` copied onto row.
SetFields(row, src, names) ==
    [ f \in DOMAIN row |->
        IF f \in Range(names) /\ f \in src.keys THEN src[f] ELSE row[f] ]

\* setattr for every name, present in the payload or not
SetFields_AllFields(row, src, names) ==
    [ f \in DOMAIN row |-> IF f \in Range(names) THEN src[f] ELSE row[f] ]

\* every detail field is set from the item, present or not
ApplyDetailItem_AllFields(detail, item) == SetFields_AllFields(detail, item, DetailFields)

\* OfferUpdateSerializer.update, lines 286-292: the fields present in the
\* item are set on the detail and saved.
ApplyDetailItem(detail, item) == SetFields(detail, item, DetailFields)

\* OfferUpdateSerializer.update, line 277: existing = {offer_type: detail}
ExistingByType(o, rows) ==
    [ t \in {rows[d].offer_type : d \in {d \in DOMAIN rows : rows[d].offer = o}} |->
        CHOOSE d \in DOMAIN rows :
            /\ rows[d].offer = o /\ rows[d].offer_type = t
            /\ \A e \in DOMAIN rows :
                   (rows[e].offer = o /\ rows[e].offer_type = t) => e <= d ]

\* Body of OfferUpdateSerializer.update: the top-level fields are set and the
\* offer saved; then the items are applied in order, and an item whose
\* offer_type (None when the key is absent) matches no existing detail raises.
\* The result holds the tables as the statements executed so far have left
\* them.
OfferUpdateSerializer_update_body(o, data) ==
    LET offers1 == [offers EXCEPT ![o] = SetFields(offers[o], data, OfferFields)]
        existing == ExistingByType(o, details)
        items == IF "details" \in data.keys THEN data.details ELSE <<>>
        Loop[i \in 0..Len(items)] ==
            IF i = 0 THEN [ok |-> TRUE, details |-> details, writes |-> 1]
            ELSE LET acc == Loop[i-1]
                     t == items[i].offer_type
                 IN  IF ~acc.ok THEN acc
                     ELSE IF "offer_type" \notin items[i].keys \/ t \notin DOMAIN existing
                     THEN [acc EXCEPT !.ok = FALSE]
                     ELSE [ ok |-> TRUE,
                            details |-> [acc.details EXCEPT ![existing[t]] =
                                            ApplyDetailItem(acc.details[existing[t]], items[i])],
                            writes |-> acc.writes + 1 ]
        r == Loop[Len(items)]
    IN  [ ok |-> r.ok, offers |-> offers1, details |-> r.details, writes |-> r.writes ]

\* update without the @transaction.atomic decorator: the rows written before
\* the unmatched item stay
OfferUpdateSerializer_update_NotAtomic(o, data) ==
    OfferUpdateSerializer_update_body(o, data)

\* offers/api/serializers.py: OfferUpdateSerializer.update under
\* @transaction.atomic
OfferUpdateSerializer_update(o, data) ==
    LET r == OfferUpdateSerializer_update_body(o, data)
    IN  IF r.ok THEN r
        ELSE [ ok |-> FALSE, offers |-> offers, details |-> details, writes |-> r.writes ]

\* UpdateModelMixin.partial_update on OfferRetrieveUpdateDestroyView:
\* serializer.is_valid(raise_exception=True), then serializer.save().
OfferPartialUpdate(o, data) ==
    LET v == OfferUpdateSerializer_is_valid(data)
        r == OfferUpdateSerializer_update(o, data)
    IN  IF v # "ok"
        THEN [ outcome |-> "ValidationError", detail |-> v, offers |-> offers,
               details |-> details, writes |-> 0 ]
        ELSE IF r.ok
        THEN [ outcome |-> "ok", detail |-> "", offers |-> r.offers,
               details |-> r.details, writes |-> r.writes ]
        ELSE [ outcome |-> "ValidationError", detail |-> "details_no_existing_offer_type",
               offers |-> r.offers, details |-> r.details, writes |-> r.writes ]

\* has_object_permission that lets every authenticated user write
IsOfferOwner_object_ReadOnlyBypassForAll(actor, o) == TRUE

\* core/permissions.py: IsOwner.has_object_permission with
\* OWNER_ID_FIELD = "owner_id" (IsOfferOwner, unsafe method)
IsOfferOwner_object(actor, o) == offers[o].owner = actor

\* PATCH /api/offers/<id>/  (OfferRetrieveUpdateDestroyView, permission
\* IsOfferOwner, serializer OfferUpdateSerializer)
OfferPatch(actor, o, data) ==
    /\ steps < MaxSteps
    /\ steps' = steps + 1
    /\ IF ~_user_is_authenticated(actor)
       THEN /\ resp' = Response("offer_patch", "NotAuthenticated", "", 0)
            /\ Unchanged_rows
       ELSE IF o \notin DOMAIN offers
       THEN /\ resp' = Response("offer_patch", "NotFound", "", 0)
            /\ Unchanged_rows
       ELSE IF ~IsOfferOwner_object(actor, o)
       THEN /\ resp' = Response("offer_patch", "PermissionDenied", "owner", 0)
            /\ Unchanged_rows
       ELSE LET r == OfferPartialUpdate(o, data)
            IN  /\ offers' = r.offers
                /\ details' = r.details
                /\ resp' = Response("offer_patch", r.outcome, r.detail, r.writes)
                /\ UNCHANGED <<users, orders, reviews, pending, seq>>

\* on_delete=PROTECT of Order.offer_detail: the orders that reference a
\* detail of offer o
ProtectingOrders(o) ==
    {k \in DOMAIN orders :
        orders[k].offer_detail \in {d \in DOMAIN details : details[d].offer = o}}

\* DELETE /api/offers/<id>/  (DestroyModelMixin.destroy: instance.delete()
\* cascades to the details; a detail referenced by an order raises
\* ProtectedError before any row is deleted, and no handler catches it)
OfferDelete(actor, o) ==
    /\ steps < MaxSteps
    /\ steps' = steps + 1
    /\ IF ~_user_is_authenticated(actor)
       THEN /\ resp' = Response("offer_delete", "NotAuthenticated", "", 0)
            /\ Unchanged_rows
       ELSE IF o \notin DOMAIN offers
       THEN /\ resp' = Response("offer_delete", "NotFound", "", 0)
            /\ Unchanged_rows
       ELSE IF ~IsOfferOwner_object(actor, o)
       THEN /\ resp' = Response("offer_delete", "PermissionDenied", "owner", 0)
            /\ Unchanged_rows
       ELSE IF ProtectingOrders(o) # {}
       THEN /\ resp' = Response("offer_delete", "ServerError", "protected", 0)
            /\ Unchanged_rows
       ELSE /\ offers' = Delete(offers, {o})
            /\ details' = Delete(details, {d \in DOMAIN details : details[d].offer = o})
            /\ resp' = Response("offer_delete", "ok", "", 1)
            /\ UNCHANGED <<users, orders, reviews, pending, seq>>

\* The fields an Order copies from its OfferDetail.
SnapshotFields ==
    {"title", "revisions", "delivery_time_in_days", "price", "features", "offer_type"}

\* orders/api/serializers.py: OrderCreateSerializer.create, lines 92-103
NewOrder(actor, did) ==
    LET od == details[did]
    IN  [ customer_user |-> actor,
          business_user |-> offers[od.offer].owner,
          offer_detail |-> did,
          title |-> od.title,
          revisions |-> od.revisions,
          delivery_time_in_days |-> od.delivery_time_in_days,
          price |-> od.price,
          features |-> od.features,
          offer_type |-> od.offer_type,
          status |-> STATUS_IN_PROGRESS ]

\* create without the comparison of the actor with the offer owner
OrderCreateSerializer_create_NoSelfCheck(actor, did) ==
    IF did \notin DOMAIN details
    THEN [ outcome |-> "ValidationError", detail |-> "offer_detail_not_found",
           orders |-> orders, seq |-> seq, writes |-> 0 ]
    ELSE [ outcome |-> "ok", detail |-> "",
           orders |-> Insert(orders, seq.order, NewOrder(actor, did)),
           seq |-> [seq EXCEPT !.order = seq.order + 1], writes |-> 1 ]

\* create that copies the price of the offer's basic detail instead of the
\* ordered detail's
OrderCreateSerializer_create_WrongPrice(actor, did) ==
    IF did \notin DOMAIN details
    THEN [ outcome |-> "ValidationError", detail |-> "offer_detail_not_found",
           orders |-> orders, seq |-> seq, writes |-> 0 ]
    ELSE IF actor = offers[details[did].offer].owner
    THEN [ outcome |-> "ValidationError", detail |-> "own_offer",
           orders |-> orders, seq |-> seq, writes |-> 0 ]
    ELSE [ outcome |-> "ok", detail |-> "",
           orders |-> Insert(orders, seq.order,
                        [NewOrder(actor, did) EXCEPT !.price = 10]),
           seq |-> [seq EXCEPT !.order = seq.order + 1], writes |-> 1 ]

\* orders/api/serializers.py: OrderCreateSerializer.create
OrderCreateSerializer_create(actor, did) ==
    IF did \notin DOMAIN details
    THEN [ outcome |-> "ValidationError", detail |-> "offer_detail_not_found",
           orders |-> orders, seq |-> seq, writes |-> 0 ]
    ELSE IF actor = offers[details[did].offer].owner
    THEN [ outcome |-> "ValidationError", detail |-> "own_offer",
           orders |-> orders, seq |-> seq, writes |-> 0 ]
    ELSE [ outcome |-> "ok", detail |-> "",
           orders |-> Insert(orders, seq.order, NewOrder(actor, did)),
           seq |-> [seq EXCEPT !.order = seq.order + 1], writes |-> 1 ]

\* POST /api/orders/  (OrderListCreateView, permissions IsAuthenticated and
\* IsCustomerUser, serializer OrderCreateSerializer)
OrderCreate(actor, did) ==
    /\ steps < MaxSteps
    /\ steps' = steps + 1
    /\ IF ~_user_is_authenticated(actor)
       THEN /\ resp' = Response("order_create", "NotAuthenticated", "", 0)
            /\ Unchanged_rows
       ELSE IF ~IsCustomerUser(actor)
       THEN /\ resp' = Response("order_create", "PermissionDenied", "role", 0)
            /\ Unchanged_rows
       ELSE IF did < 1
       THEN /\ resp' = Response("order_create", "ValidationError", "offer_detail_id_min", 0)
            /\ Unchanged_rows
       ELSE LET r == OrderCreateSerializer_create(actor, did)
            IN  /\ orders' = r.orders
                /\ seq' = r.seq
                /\ resp' = Response("order_create", r.outcome, r.detail, r.writes)
                /\ UNCHANGED <<users, offers, details, reviews, pending>>

(* An order PATCH payload: `keys` is the set of keys of the JSON body. *)
NoStatusPatch == [keys |-> {}, status |-> "", price |-> 0]

OrderPatchPayloads ==
    { [NoStatusPatch EXCEPT !.keys = {"status"}, !.status = STATUS_COMPLETED],
      [NoStatusPatch EXCEPT !.keys = {"status"}, !.status = STATUS_CANCELLED],
      [NoStatusPatch EXCEPT !.keys = {"status"}, !.status = "shipped"],
      [NoStatusPatch EXCEPT !.keys = {"status", "price"}, !.status = STATUS_COMPLETED,
                            !.price = 5],
      [NoStatusPatch EXCEPT !.keys = {"status", "price"}, !.status = "shipped", !.price = 5],
      [NoStatusPatch EXCEPT !.keys = {"price"}, !.price = 5],
      NoStatusPatch }

\* validate that lets every key pass
OrderStatusUpdateSerializer_validate_AcceptsExtraKeys(data) == {}

\* orders/api/serializers.py: OrderStatusUpdateSerializer.validate: the keys
\* of the body other than status
OrderStatusUpdateSerializer_validate(data) == data.keys \ {"status"}

\* orders/api/serializers.py: OrderStatusUpdateSerializer.update
OrderStatusUpdateSerializer_update(k, data) ==
    [orders EXCEPT ![k].status = data.status]

\* partial_update without the choice validation of status
OrderPartialUpdate_NoChoiceCheck(k, data) ==
    IF OrderStatusUpdateSerializer_validate(data) # {}
    THEN [ outcome |-> "ValidationError", detail |-> "unexpected_fields",
           fields |-> OrderStatusUpdateSerializer_validate(data),
           orders |-> orders, writes |-> 0 ]
    ELSE IF "status" \notin data.keys
    THEN [ outcome |-> "ServerError", detail |-> "KeyError_status", fields |-> {},
           orders |-> orders, writes |-> 0 ]
    ELSE [ outcome |-> "ok", detail |-> "", fields |-> {},
           orders |-> OrderStatusUpdateSerializer_update(k, data), writes |-> 1 ]

\* UpdateModelMixin.partial_update on OrderUpdateDestroyView: the field
\* validation of status (a choice field, optional in a partial update), then
\* validate(), then update(), which reads validated_data["status"].
OrderPartialUpdate(k, data) ==
    IF "status" \in data.keys /\ data.status \notin STATUS_CHOICES
    THEN [ outcome |-> "ValidationError", detail |-> "status_invalid_choice",
           fields |-> {"status"}, orders |-> orders, writes |-> 0 ]
    ELSE IF OrderStatusUpdateSerializer_validate(data) # {}
    THEN [ outcome |-> "ValidationError", detail |-> "unexpected_fields",
           fields |-> OrderStatusUpdateSerializer_validate(data),
           orders |-> orders, writes |-> 0 ]
    ELSE IF "status" \notin data.keys
    THEN [ outcome |-> "ServerError", detail |-> "KeyError_status", fields |-> {},
           orders |-> orders, writes |-> 0 ]
    ELSE [ outcome |-> "ok", detail |-> "", fields |-> {},
           orders |-> OrderStatusUpdateSerializer_update(k, data), writes |-> 1 ]

\* has_object_permission that accepts every business user
IsOrderBusinessUser_object_AnyBusiness(actor, k) == TRUE

\* core/permissions.py: IsOrderBusinessUser.has_object_permission
IsOrderBusinessUser_object(actor, k) == orders[k].business_user = actor

\* A PATCH that looks the order up and checks the business party before the
\* role gate is evaluated
OrderPatch_ObjectBeforeRole(actor, k, data) ==
    /\ steps < MaxSteps
    /\ steps' = steps + 1
    /\ IF ~_user_is_authenticated(actor)
       THEN /\ resp' = Response("order_patch", "NotAuthenticated", "", 0)
            /\ Unchanged_rows
       ELSE IF k \notin DOMAIN orders
       THEN /\ resp' = Response("order_patch", "NotFound", "", 0)
            /\ Unchanged_rows
       ELSE IF ~IsOrderBusinessUser_object(actor, k)
       THEN /\ resp' = Response("order_patch", "PermissionDenied", "owner", 0)
            /\ Unchanged_rows
       ELSE IF ~IsBusinessUser(actor)
       THEN /\ resp' = Response("order_patch", "PermissionDenied", "role", 0)
            /\ Unchanged_rows
       ELSE LET r == OrderPartialUpdate(k, data)
            IN  /\ orders' = r.orders
                /\ resp' = ResponseNaming("order_patch", r.outcome, r.detail,
                                          r.fields, r.writes)
                /\ UNCHANGED <<users, offers, details, reviews, pending, seq>>

\* PATCH /api/orders/<id>/  (OrderUpdateDestroyView, permission
\* IsOrderBusinessUser, serializer OrderStatusUpdateSerializer)
OrderPatch(actor, k, data) ==
    /\ steps < MaxSteps
    /\ steps' = steps + 1
    /\ IF ~_user_is_authenticated(actor)
       THEN /\ resp' = Response("order_patch", "NotAuthenticated", "", 0)
            /\ Unchanged_rows
       ELSE IF ~IsBusinessUser(actor)
       THEN /\ resp' = Response("order_patch", "PermissionDenied", "role", 0)
            /\ Unchanged_rows
       ELSE IF k \notin DOMAIN orders
       THEN /\ resp' = Response("order_patch", "NotFound", "", 0)
            /\ Unchanged_rows
       ELSE IF ~IsOrderBusinessUser_object(actor, k)
       THEN /\ resp' = Response("order_patch", "PermissionDenied", "owner", 0)
            /\ Unchanged_rows
       ELSE LET r == OrderPartialUpdate(k, data)
            IN  /\ orders' = r.orders
                /\ resp' = ResponseNaming("order_patch", r.outcome, r.detail,
                                          r.fields, r.writes)
                /\ UNCHANGED <<users, offers, details, reviews, pending, seq>>

Init ==
    /\ users = MainUsers
    /\ offers = <<>>
    /\ details = <<>>
    /\ orders = <<>>
    /\ reviews = <<>>
    /\ pending = <<>>
    /\ seq = [offer |-> 1, detail |-> 1, order |-> 1, review |-> 1, request |-> 1]
    /\ resp = NoResp
    /\ steps = 0

(* A request that is turned away before its body is read has the same      *)
(* effect whatever the body: such requests are enumerated with one body.   *)
OfferCreateBodies(actor) ==
    IF IsBusinessUser(actor) THEN OfferCreatePayloads \X BOOLEAN
    ELSE {<<CHOOSE data \in OfferCreatePayloads : TRUE, FALSE>>}

OfferPatchBodies(actor, o) ==
    IF _user_is_authenticated(actor) /\ o \in DOMAIN offers /\ IsOfferOwner_object(actor, o)
    THEN OfferPatchPayloads
    ELSE {NoPatch}

OrderCreateBodies(actor) ==
    IF IsCustomerUser(actor) THEN DOMAIN details \cup {seq.detail}
    ELSE {seq.detail}

OrderPatchBodies(actor, k) ==
    IF IsBusinessUser(actor) /\ k \in DOMAIN orders /\ IsOrderBusinessUser_object(actor, k)
    THEN OrderPatchPayloads
    ELSE {NoStatusPatch}

Next ==
    \/ \E actor \in Actors : \E body \in OfferCreateBodies(actor) :
           OfferCreate(actor, body[1], body[2])
    \/ \E actor \in Actors, o \in DOMAIN offers \cup {seq.offer} :
           \E data \in OfferPatchBodies(actor, o) : OfferPatch(actor, o, data)
    \/ \E actor \in Actors, o \in DOMAIN offers \cup {seq.offer} :
           OfferDelete(actor, o)
    \/ \E actor \in Actors : \E did \in OrderCreateBodies(actor) :
           OrderCreate(actor, did)
    \/ \E actor \in Actors, k \in DOMAIN orders \cup {seq.order} :
           \E data \in OrderPatchBodies(actor, k) : OrderPatch(actor, k, data)

Spec == Init /\ [][Next]_vars

-----------------------------------------------------------------------------
(* SpecReviews: review creation and deletion.  A create request reads the  *)
(* existing reviews in validate() and inserts in create(); the two are     *)
(* separate statements on the store, so other requests run between them.   *)

MaxPending == 2

ReviewInputs == [business_user : 1..4, rating : {4, 6}]

\* getattr(target, "user_type", None): the User model has the field `type`
\* and no attribute `user_type`
UserTypeAttr(u) == PyNone

\* validate_business_user that accepts every existing user
validate_business_user_AnyUser(value) ==
    IF value \notin DOMAIN users THEN "business_user_not_found" ELSE "ok"

\* reviews/api/serializers.py: ReviewCreateSerializer.validate_business_user
validate_business_user(value) ==
    IF value \notin DOMAIN users THEN "business_user_not_found"
    ELSE IF UserTypeAttr(value) = PyStr(S_business) THEN "ok"
    ELSE IF ProfileRole(value) = PyStr(S_business) THEN "ok"
    ELSE "business_user_not_business"

\* the rows of the pair exist
ReviewExists(rows, reviewer, business_user) ==
    \E r \in DOMAIN rows :
        rows[r].reviewer = reviewer /\ rows[r].business_user = business_user

\* validate without the comparison of the reviewer with the target
ReviewCreateSerializer_validate_NoSelfCheck(actor, data) ==
    IF ReviewExists(reviews, actor, data.business_user) THEN "already_reviewed"
    ELSE "ok"

\* reviews/api/serializers.py: ReviewCreateSerializer.validate
ReviewCreateSerializer_validate(actor, data) ==
    IF actor = data.business_user THEN "self_review"
    ELSE IF ReviewExists(reviews, actor, data.business_user) THEN "already_reviewed"
    ELSE "ok"

\* ReviewCreateSerializer.is_valid: the fields (business_user, rating in
\* 1..5), then validate().
ReviewCreateSerializer_is_valid(actor, data) ==
    IF validate_business_user(data.business_user) # "ok"
    THEN validate_business_user(data.business_user)
    ELSE IF data.rating < 1 \/ data.rating > 5 THEN "rating_range"
    ELSE ReviewCreateSerializer_validate(actor, data)

\* a table without the constraint
UniqueConstraintViolated_NoConstraint(rows, reviewer, business_user) == FALSE

\* reviews/models.py: Review.Meta.constraints, the unique constraint on
\* (reviewer, business_user): an insert of an existing pair raises
\* IntegrityError
UniqueConstraintViolated(rows, reviewer, business_user) ==
    ReviewExists(rows, reviewer, business_user)

\* reviews/api/serializers.py: ReviewCreateSerializer.create
ReviewCreateSerializer_create(actor, data) ==
    IF UniqueConstraintViolated(reviews, actor, data.business_user)
    THEN [ outcome |-> "ValidationError", detail |-> "already_reviewed", reviews |-> reviews,
           seq |-> seq ]
    ELSE [ outcome |-> "ok", detail |-> "",
           reviews |-> Insert(reviews, seq.review,
                         [ reviewer |-> actor, business_user |-> data.business_user,
                           rating |-> data.rating, description |-> "" ]),
           seq |-> [seq EXCEPT !.review = seq.review + 1] ]

\* POST /api/reviews/, first part (ReviewListCreateView: permissions
\* IsAuthenticated and IsCustomerUser, then serializer.is_valid()); a valid
\* request goes on to perform_create.
ReviewCreateValidate(actor, data) ==
    /\ steps < MaxReviewSteps
    /\ steps' = steps + 1
    /\ IF ~_user_is_authenticated(actor)
       THEN /\ resp' = Response("review_create", "NotAuthenticated", "", 0)
            /\ Unchanged_rows
       ELSE IF ~IsCustomerUser(actor)
       THEN /\ resp' = Response("review_create", "PermissionDenied", "role", 0)
            /\ Unchanged_rows
       ELSE IF ReviewCreateSerializer_is_valid(actor, data) # "ok"
       THEN /\ resp' = Response("review_create", "ValidationError",
                                ReviewCreateSerializer_is_valid(actor, data), 0)
            /\ Unchanged_rows
       ELSE /\ Cardinality(DOMAIN pending) < MaxPending
            /\ pending' = Insert(pending, seq.request, [actor |-> actor, data |-> data])
            /\ seq' = [seq EXCEPT !.request = seq.request + 1]
            /\ resp' = Response("review_validate", "valid", "", 0)
            /\ UNCHANGED <<users, offers, details, orders, reviews>>

\* POST /api/reviews/, second part: serializer.save() of a validated request.
ReviewCreateSave(q) ==
    /\ q \in DOMAIN pending
    /\ steps < MaxReviewSteps
    /\ steps' = steps + 1
    /\ LET r == ReviewCreateSerializer_create(pending[q].actor, pending[q].data)
       IN  /\ reviews' = r.reviews
           /\ seq' = r.seq
           /\ resp' = Response("review_create", r.outcome, r.detail, 1)
    /\ pending' = Delete(pending, {q})
    /\ UNCHANGED <<users, offers, details, orders>>

\* IsOwner with the read-only bypass of IsOwnerOrReadOnly taken for writes
IsReviewOwner_object_AnyAuthenticated(actor, r) == TRUE

\* core/permissions.py: IsReviewOwner (IsOwner with OWNER_ID_FIELD =
\* "reviewer_id")
IsReviewOwner_object(actor, r) == reviews[r].reviewer = actor

\* DELETE /api/reviews/<id>/  (ReviewUpdateDestroyView, permissions
\* IsAuthenticated and IsReviewOwner)
ReviewDelete(actor, r) ==
    /\ steps < MaxReviewSteps
    /\ steps' = steps + 1
    /\ IF ~_user_is_authenticated(actor)
       THEN /\ resp' = Response("review_delete", "NotAuthenticated", "", 0)
            /\ Unchanged_rows
       ELSE IF r \notin DOMAIN reviews
       THEN /\ resp' = Response("review_delete", "NotFound", "", 0)
            /\ Unchanged_rows
       ELSE IF ~IsReviewOwner_object(actor, r)
       THEN /\ resp' = Response("review_delete", "PermissionDenied", "owner", 0)
            /\ Unchanged_rows
       ELSE /\ reviews' = Delete(reviews, {r})
            /\ resp' = Response("review_delete", "ok", "", 1)
            /\ UNCHANGED <<users, offers, details, orders, pending, seq>>

ReviewCreateBodies(actor) ==
    IF IsCustomerUser(actor) THEN ReviewInputs
    ELSE {CHOOSE data \in ReviewInputs : TRUE}

NextReviews ==
    \/ \E actor \in Actors : \E data \in ReviewCreateBodies(actor) :
           ReviewCreateValidate(actor, data)
    \/ \E q \in DOMAIN pending : ReviewCreateSave(q)
    \/ \E actor \in Actors, r \in DOMAIN reviews \cup {seq.review} :
           ReviewDelete(actor, r)

SpecReviews == Init /\ [][NextReviews]_vars

-----------------------------------------------------------------------------
(* Properties of the offer and order handlers (checked under Spec).        *)

\* The details list of an offer-create payload breaks the rule of three
\* distinct valid tiers.
InvalidDetails(data) ==
    \/ Len(data.details) # 3
    \/ \E i, j \in 1..Len(data.details) :
           i # j /\ data.details[i].offer_type = data.details[j].offer_type
    \/ \E i \in 1..Len(data.details) :
           data.details[i].offer_type \notin {"basic", "standard", "premium"}

\* C2: an offer-create request that reaches the serializer (the actor passes
\* the business gate) with a details list of a length other than 3, with two
\* details of one tier or with an unknown tier ends in a ValidationError
\* before any write is attempted; the Offer and OfferDetail rows are the same
\* after the request as before.
C2_InvalidOfferCreateRejected ==
    [][ resp'.op = "offer_create" =>
          \A actor \in Actors : IsBusinessUser(actor) =>
              \A data \in OfferCreatePayloads : InvalidDetails(data) =>
                  \A f \in BOOLEAN : OfferCreate(actor, data, f) =>
                      /\ resp'.outcome = "ValidationError"
                      /\ resp'.writes = 0
                      /\ offers' = offers
                      /\ details' = details ]_vars

\* C2 witness: a create with two details of one tier was rejected while an
\* offer was persisted.
C2_Witness ==
    /\ resp = Response("offer_create", "ValidationError", "details_duplicate_offer_type", 0)
    /\ DOMAIN offers # {}

DetailsOf(o) == {d \in DOMAIN details : details[d].offer = o}

\* C3: in every reachable state every persisted Offer has exactly 3
\* OfferDetail rows, one of each of the tiers basic, standard and premium.
C3_ThreeDistinctTiers ==
    \A o \in DOMAIN offers :
        /\ Cardinality(DetailsOf(o)) = 3
        /\ {details[d].offer_type : d \in DetailsOf(o)} = {"basic", "standard", "premium"}

\* C3 witness: the insert of the detail rows of a second offer has failed
\* after its Offer row was inserted.
C3_Witness ==
    /\ resp = Response("offer_create", "ServerError", "storage", 2)
    /\ DOMAIN offers # {}

\* C4: an order create that reaches the serializer with an actor who owns the
\* parent offer of the detail ends in a ValidationError and persists no Order;
\* in every reachable state every Order has customer_user # business_user and
\* business_user equal to the owner of the offer of its source detail.
C4_NoSelfOrder ==
    /\ [][ resp'.op = "order_create" =>
             \A actor \in Actors, did \in DOMAIN details :
                 ( /\ IsCustomerUser(actor)
                   /\ offers[details[did].offer].owner = actor
                   /\ OrderCreate(actor, did) )
                     => /\ resp'.outcome = "ValidationError"
                        /\ orders' = orders ]_vars
    /\ [](\A k \in DOMAIN orders :
             /\ orders[k].customer_user # orders[k].business_user
             /\ orders[k].offer_detail \in DOMAIN details
             /\ orders[k].business_user = offers[details[orders[k].offer_detail].offer].owner)

\* C4 witness: the owner of an offer was refused an order of its own detail
\* while an order of another user was persisted.
C4_Witness ==
    /\ resp = Response("order_create", "ValidationError", "own_offer", 0)
    /\ DOMAIN orders # {}

\* C5: a created Order carries the six snapshot fields of its OfferDetail as
\* they were at creation, and no later request changes them.
C5_SnapshotFrozen ==
    [][ /\ \A k \in DOMAIN orders' \ DOMAIN orders :
               /\ orders'[k].offer_detail \in DOMAIN details
               /\ \A f \in SnapshotFields :
                      orders'[k][f] = details[orders'[k].offer_detail][f]
        /\ \A k \in DOMAIN orders \cap DOMAIN orders' :
               \A f \in SnapshotFields : orders'[k][f] = orders[k][f] ]_vars

\* C5 witness: an order keeps price 10 and its features after its detail was
\* patched to price 7 with other features, and its status was updated.
C5_Witness ==
    \E k \in DOMAIN orders :
        /\ orders[k].price = 10
        /\ details[orders[k].offer_detail].price = 7
        /\ orders[k].features # details[orders[k].offer_detail].features
        /\ orders[k].status = STATUS_COMPLETED

\* The order PATCH of actor on order k reaches the serializer.
OrderPatchAuthorised(actor, k) ==
    /\ k \in DOMAIN orders
    /\ orders[k].business_user = actor
    /\ IsBusinessUser(actor)

\* Every field of every order other than the status of order k is unchanged.
OnlyStatusOf(k) ==
    /\ DOMAIN orders' = DOMAIN orders
    /\ \A j \in DOMAIN orders :
           \A f \in DOMAIN orders[j] :
               (j # k \/ f # "status") => orders'[j][f] = orders[j][f]

\* C8 as stated: an authorised order PATCH whose payload has a key other
\* than status ends in a ValidationError that names the unexpected keys and
\* changes no order; a payload of exactly a valid status changes only status.
C8_Original ==
    [][ resp'.op = "order_patch" =>
          \A actor \in Actors, k \in DOMAIN orders : OrderPatchAuthorised(actor, k) =>
              \A data \in OrderPatchPayloads : OrderPatch(actor, k, data) =>
                  /\ data.keys \ {"status"} # {} =>
                        /\ resp'.outcome = "ValidationError"
                        /\ resp'.fields = data.keys \ {"status"}
                        /\ orders' = orders
                  /\ (data.keys = {"status"} /\ data.status \in STATUS_CHOICES) =>
                        /\ resp'.outcome = "ok"
                        /\ orders'[k].status = data.status
                        /\ OnlyStatusOf(k) ]_vars

\* C8 amended: an authorised order PATCH whose payload has a key other than
\* status ends in a ValidationError and changes no order; the error names the
\* unexpected keys when the payload has no status or a valid one, and reports
\* the status value alone when that value is invalid.  A payload of exactly a
\* valid status changes only status.
C8_ExtraKeysRejected ==
    [][ resp'.op = "order_patch" =>
          \A actor \in Actors, k \in DOMAIN orders : OrderPatchAuthorised(actor, k) =>
              \A data \in OrderPatchPayloads : OrderPatch(actor, k, data) =>
                  /\ data.keys \ {"status"} # {} =>
                        /\ resp'.outcome = "ValidationError"
                        /\ orders' = orders
                        /\ resp'.fields =
                             IF "status" \in data.keys /\ data.status \notin STATUS_CHOICES
                             THEN {"status"}
                             ELSE data.keys \ {"status"}
                  /\ (data.keys = {"status"} /\ data.status \in STATUS_CHOICES) =>
                        /\ resp'.outcome = "ok"
                        /\ orders'[k].status = data.status
                        /\ OnlyStatusOf(k) ]_vars

\* C8 witness: a PATCH with status and price was rejected naming price, on an
\* order whose status an earlier PATCH had set to completed.
C8_Witness ==
    /\ resp = ResponseNaming("order_patch", "ValidationError", "unexpected_fields",
                             {"price"}, 0)
    /\ \E k \in DOMAIN orders : orders[k].status = STATUS_COMPLETED

\* The offer PATCH of actor on offer o reaches the serializer.
OfferPatchAuthorised(actor, o) ==
    /\ _user_is_authenticated(actor)
    /\ o \in DOMAIN offers
    /\ offers[o].owner = actor

\* Some item of the payload has an offer_type that no detail of o has; an
\* item without the key is read as offer_type None, which no detail has.
HasUnmatchedItem(o, data) ==
    /\ "details" \in data.keys
    /\ \E i \in 1..Len(data.details) :
           \/ "offer_type" \notin data.details[i].keys
           \/ data.details[i].offer_type \notin {details[d].offer_type : d \in DetailsOf(o)}

\* C9: an offer PATCH by the owner in which an item of details has an
\* offer_type that matches no detail of the offer ends in a ValidationError
\* and leaves every Offer and OfferDetail row as it was, valid top-level
\* fields and earlier valid items included; no detail row is created.
C9_UnmatchedTierRejected ==
    [][ resp'.op = "offer_patch" =>
          \A actor \in Actors, o \in DOMAIN offers, data \in OfferPatchPayloads :
              ( /\ OfferPatchAuthorised(actor, o)
                /\ HasUnmatchedItem(o, data)
                /\ OfferPatch(actor, o, data) )
                  => /\ resp'.outcome = "ValidationError"
                     /\ offers' = offers
                     /\ details' = details ]_vars

\* C9 witness: a PATCH that carried a title, a valid basic item and then a
\* deluxe item was rejected; the offer keeps its title and the basic price.
C9_Witness ==
    /\ resp = Response("offer_patch", "ValidationError", "details_invalid_choice", 0)
    /\ \E o \in DOMAIN offers :
           /\ offers[o].title = "t1"
           /\ \A d \in DetailsOf(o) : details[d].offer_type = "basic" => details[d].price = 10

\* The items of the payload that set field f of detail d of offer o.
ItemsSetting(o, data, d, f) ==
    IF "details" \notin data.keys \/ details[d].offer # o THEN {}
    ELSE {i \in 1..Len(data.details) :
             /\ data.details[i].offer_type = details[d].offer_type
             /\ f \in data.details[i].keys}

\* C10: a successful offer PATCH sets, in the detail selected by each item's
\* offer_type, the fields present in the item (the last item to name a field
\* decides it) and sets the top-level fields present in the payload; ids,
\* offer_type, parent and owner, the absent fields, the details of tiers not
\* named and every other offer with its details are unchanged.
C10_PatchFrame ==
    [][ (resp'.op = "offer_patch" /\ resp'.outcome = "ok") =>
          \A actor \in Actors, o \in DOMAIN offers, data \in OfferPatchPayloads :
              (OfferPatchAuthorised(actor, o) /\ OfferPatch(actor, o, data)) =>
                  /\ DOMAIN offers' = DOMAIN offers
                  /\ DOMAIN details' = DOMAIN details
                  /\ \A p \in DOMAIN offers :
                         /\ offers'[p].owner = offers[p].owner
                         /\ \A f \in {"title", "image", "description"} :
                                offers'[p][f] =
                                    IF p = o /\ f \in data.keys THEN data[f] ELSE offers[p][f]
                  /\ \A d \in DOMAIN details :
                         /\ details'[d].offer_type = details[d].offer_type
                         /\ details'[d].offer = details[d].offer
                         /\ \A f \in {"title", "revisions", "delivery_time_in_days",
                                      "price", "features"} :
                                LET its == ItemsSetting(o, data, d, f)
                                IN  details'[d][f] =
                                      IF its = {} THEN details[d][f]
                                      ELSE data.details[CHOOSE i \in its :
                                                           \A j \in its : j <= i][f] ]_vars

\* C10 witness: with two offers persisted, a PATCH has set title and
\* revisions of the standard detail of one of them and the offer's title,
\* and left its price, its description and the other offer alone.
C10_Witness ==
    /\ resp = Response("offer_patch", "ok", "", 2)
    /\ \E o, p \in DOMAIN offers :
           /\ o # p
           /\ offers[o].title = "t2" /\ offers[o].description = "d1"
           /\ offers[p].title = "t1"
           /\ \E d \in DetailsOf(o) :
                  /\ details[d].offer_type = "standard"
                  /\ details[d].title = "pro" /\ details[d].revisions = 0
                  /\ details[d].price = 20
           /\ \A d \in DetailsOf(p) : details[d].title = "plan"

-----------------------------------------------------------------------------
(* Properties of the review handlers (checked under SpecReviews).          *)

ReviewsOfPair(reviewer, business_user) ==
    {r \in DOMAIN reviews :
        reviews[r].reviewer = reviewer /\ reviews[r].business_user = business_user}

\* C6: under every interleaving of review creates the store holds at most
\* one Review per (reviewer, business_user); the insert of a pair that has no
\* review succeeds, and a create for a pair that has a review ends in the
\* ValidationError "already reviewed" with no row written, whether the
\* pre-check or the insert stops it; no create ends in an unhandled failure.
C6_OneReviewPerPair ==
    /\ [](\A a, b \in DOMAIN users : Cardinality(ReviewsOfPair(a, b)) <= 1)
    /\ [](resp.op = "review_create" => resp.outcome # "ServerError")
    /\ [][ resp'.op = "review_create" =>
             /\ \A q \in DOMAIN pending :
                    ( /\ ReviewsOfPair(pending[q].actor, pending[q].data.business_user) = {}
                      /\ ReviewCreateSave(q) )
                        => /\ resp'.outcome = "ok"
                           /\ \E r \in DOMAIN reviews' \ DOMAIN reviews :
                                  /\ reviews'[r].reviewer = pending[q].actor
                                  /\ reviews'[r].business_user = pending[q].data.business_user
             /\ \A q \in DOMAIN pending :
                    ( /\ ReviewsOfPair(pending[q].actor, pending[q].data.business_user) # {}
                      /\ ReviewCreateSave(q) )
                        => /\ resp'.outcome = "ValidationError"
                           /\ resp'.detail = "already_reviewed"
                           /\ reviews' = reviews
             /\ \A actor \in Actors, data \in ReviewInputs :
                    ( /\ IsCustomerUser(actor)
                      /\ data.rating \in 1..5
                      /\ ReviewsOfPair(actor, data.business_user) # {}
                      /\ ReviewCreateValidate(actor, data) )
                        => /\ resp'.outcome = "ValidationError"
                           /\ resp'.detail = "already_reviewed"
                           /\ reviews' = reviews
                           /\ pending' = pending ]_vars

\* C6 witness: of two creates of one pair that both passed the pre-check,
\* the second was stopped by the uniqueness violation at insert.
C6_Witness ==
    /\ resp = Response("review_create", "ValidationError", "already_reviewed", 1)
    /\ \E a, b \in DOMAIN users : Cardinality(ReviewsOfPair(a, b)) = 1

\* C7: a review create whose business_user is the acting reviewer ends in a
\* ValidationError and persists nothing; in every reachable state every
\* Review has reviewer # business_user.
C7_NoSelfReview ==
    /\ [](\A r \in DOMAIN reviews : reviews[r].reviewer # reviews[r].business_user)
    /\ [][ resp'.op \in {"review_create", "review_validate"} =>
             \A actor \in Actors, data \in ReviewInputs :
                 ( /\ IsCustomerUser(actor)
                   /\ data.business_user = actor
                   /\ ReviewCreateValidate(actor, data) )
                     => /\ resp'.outcome = "ValidationError"
                        /\ reviews' = reviews
                        /\ pending' = pending ]_vars

\* C7 witness: a reviewer whose profile is a business profile was refused a
\* review of itself while it has a review of another business persisted.
C7_Witness ==
    /\ resp = Response("review_create", "ValidationError", "self_review", 0)
    /\ \E r \in DOMAIN reviews : reviews[r].reviewer = 3

-----------------------------------------------------------------------------
(* SpecAccess: who may read, change and delete offers and orders.  The      *)
(* handlers of Spec, with the reads, the full update (PUT) of an offer and  *)
(* the administrator's order delete; user 4 is a staff user (is_staff).     *)

\* django.contrib.auth AbstractUser.is_staff, read by
\* rest_framework.permissions.IsAdminUser; no handler writes it.
StaffIds == {4}

AccessUsers == MainUsers @@ (4 :> User(PyStr(S_customer), NoProfile))

\* permissions.IsAdminUser.has_permission
IsAdminUser(actor) == _user_is_authenticated(actor) /\ actor \in StaffIds

\* The response of a list request: the ids of the rows returned, in order.
ResponseListing(op, rows) ==
    [op |-> op, outcome |-> "ok", detail |-> "", fields |-> {}, writes |-> 0, rows |-> rows]

\* The ids of a queryset in ascending order of id.
RECURSIVE Ascending(_)
Ascending(ids) ==
    IF ids = {} THEN <<>>
    ELSE LET m == CHOOSE i \in ids : \A j \in ids : i <= j
         IN  <<m>> \o Ascending(ids \ {m})

\* OfferUpdateSerializer.is_valid for PUT (partial=False): title is required,
\* and so is the offer_type of every item.
OfferUpdateSerializer_is_valid_full(data) ==
    IF "title" \notin data.keys THEN "title_required"
    ELSE IF "details" \in data.keys
            /\ \E i \in 1..Len(data.details) : "offer_type" \notin data.details[i].keys
    THEN "details_offer_type_required"
    ELSE OfferUpdateSerializer_is_valid(data)

\* UpdateModelMixin.update on OfferRetrieveUpdateDestroyView (PUT):
\* serializer.is_valid(raise_exception=True), then serializer.save().
OfferFullUpdate(o, data) ==
    LET v == OfferUpdateSerializer_is_valid_full(data)
    IN  IF v # "ok"
        THEN [ outcome |-> "ValidationError", detail |-> v, offers |-> offers,
               details |-> details, writes |-> 0 ]
        ELSE OfferPartialUpdate(o, data)

\* PUT /api/offers/<id>/  (OfferRetrieveUpdateDestroyView, permission
\* IsOfferOwner, serializer OfferUpdateSerializer)
OfferPut(actor, o, data) ==
    /\ steps < MaxSteps
    /\ steps' = steps + 1
    /\ IF ~_user_is_authenticated(actor)
       THEN /\ resp' = Response("offer_put", "NotAuthenticated", "", 0)
            /\ Unchanged_rows
       ELSE IF o \notin DOMAIN offers
       THEN /\ resp' = Response("offer_put", "NotFound", "", 0)
            /\ Unchanged_rows
       ELSE IF ~IsOfferOwner_object(actor, o)
       THEN /\ resp' = Response("offer_put", "PermissionDenied", "owner", 0)
            /\ Unchanged_rows
       ELSE LET r == OfferFullUpdate(o, data)
            IN  /\ offers' = r.offers
                /\ details' = r.details
                /\ resp' = Response("offer_put", r.outcome, r.detail, r.writes)
                /\ UNCHANGED <<users, orders, reviews, pending, seq>>

\* GET /api/offers/<id>/  (OfferRetrieveUpdateDestroyView, permission
\* IsAuthenticated)
OfferRetrieve(actor, o) ==
    /\ steps < MaxSteps
    /\ steps' = steps + 1
    /\ resp' = IF ~_user_is_authenticated(actor)
               THEN Response("offer_retrieve", "NotAuthenticated", "", 0)
               ELSE IF o \notin DOMAIN offers
               THEN Response("offer_retrieve", "NotFound", "", 0)
               ELSE ResponseListing("offer_retrieve", <<o>>)
    /\ Unchanged_rows

\* GET /api/offers/ without query parameters (OfferListCreateView,
\* permission AllowAny)
OfferList(actor) ==
    /\ steps < MaxSteps
    /\ steps' = steps + 1
    /\ resp' = ResponseListing("offer_list",
                               Ascending(DOMAIN offers))
    /\ Unchanged_rows

InitAccess ==
    /\ users = AccessUsers
    /\ offers = <<>>
    /\ details = <<>>
    /\ orders = <<>>
    /\ reviews = <<>>
    /\ pending = <<>>
    /\ seq = [offer |-> 1, detail |-> 1, order |-> 1, review |-> 1, request |-> 1]
    /\ resp = NoResp
    /\ steps = 0

\* get_queryset that filters on the customer side only
OrderListCreateView_get_queryset_CustomerSideOnly(actor) ==
    SelectSeq(Ascending(DOMAIN orders), LAMBDA k : orders[k].customer_user = actor)

\* orders/api/views.py: OrderListCreateView.get_queryset
OrderListCreateView_get_queryset(actor) ==
    SelectSeq(Ascending(DOMAIN orders),
              LAMBDA k : orders[k].customer_user = actor \/ orders[k].business_user = actor)

\* GET /api/orders/  (OrderListCreateView, permission IsAuthenticated)
OrderList(actor) ==
    /\ steps < MaxSteps
    /\ steps' = steps + 1
    /\ resp' = IF ~_user_is_authenticated(actor)
               THEN Response("order_list", "NotAuthenticated", "", 0)
               ELSE ResponseListing("order_list", OrderListCreateView_get_queryset(actor))
    /\ Unchanged_rows

\* DELETE /api/orders/<id>/  (OrderUpdateDestroyView, permission IsAdminUser)
OrderDelete(actor, k) ==
    /\ steps < MaxSteps
    /\ steps' = steps + 1
    /\ IF ~_user_is_authenticated(actor)
       THEN /\ resp' = Response("order_delete", "NotAuthenticated", "", 0)
            /\ Unchanged_rows
       ELSE IF ~IsAdminUser(actor)
       THEN /\ resp' = Response("order_delete", "PermissionDenied", "admin", 0)
            /\ Unchanged_rows
       ELSE IF k \notin DOMAIN orders
       THEN /\ resp' = Response("order_delete", "NotFound", "", 0)
            /\ Unchanged_rows
       ELSE /\ orders' = Delete(orders, {k})
            /\ resp' = Response("order_delete", "ok", "", 1)
            /\ UNCHANGED <<users, offers, details, reviews, pending, seq>>

(* The request bodies of SpecAccess: one valid offer, and for the requests  *)
(* that reach a serializer two bodies each.                                 *)
AccessCreatePayload ==
    [ title |-> "t1", description |-> "d1",
      details |-> <<DetailInput("basic"), DetailInput("standard"), DetailInput("premium")>> ]

AccessOfferBodies(actor, o) ==
    IF _user_is_authenticated(actor) /\ o \in DOMAIN offers /\ IsOfferOwner_object(actor, o)
    THEN { [NoPatch EXCEPT !.keys = {"title"}, !.title = "t2"],
           [NoPatch EXCEPT !.keys = {"details"}, !.details = <<ItemBasicPrice>>] }
    ELSE {NoPatch}

AccessOrderBodies(actor, k) ==
    IF IsBusinessUser(actor) /\ k \in DOMAIN orders /\ IsOrderBusinessUser_object(actor, k)
    THEN { [NoStatusPatch EXCEPT !.keys = {"status"}, !.status = STATUS_COMPLETED],
           [NoStatusPatch EXCEPT !.keys = {"status", "price"}, !.status = STATUS_COMPLETED,
                                 !.price = 5] }
    ELSE {NoStatusPatch}

NextAccess ==
    \/ \E actor \in Actors : OfferCreate(actor, AccessCreatePayload, FALSE)
    \/ \E actor \in Actors, o \in DOMAIN offers \cup {seq.offer} :
           \E data \in AccessOfferBodies(actor, o) : OfferPatch(actor, o, data)
    \/ \E actor \in Actors, o \in DOMAIN offers \cup {seq.offer} :
           \E data \in AccessOfferBodies(actor, o) : OfferPut(actor, o, data)
    \/ \E actor \in Actors, o \in DOMAIN offers \cup {seq.offer} :
           OfferDelete(actor, o)
    \/ \E actor \in Actors, o \in DOMAIN offers \cup {seq.offer} :
           OfferRetrieve(actor, o)
    \/ \E actor \in Actors : OfferList(actor)
    \/ \E actor \in Actors : \E did \in OrderCreateBodies(actor) :
           OrderCreate(actor, did)
    \/ \E actor \in Actors, k \in DOMAIN orders \cup {seq.order} :
           \E data \in AccessOrderBodies(actor, k) : OrderPatch(actor, k, data)
    \/ \E actor \in Actors, k \in DOMAIN orders \cup {seq.order} :
           OrderDelete(actor, k)
    \/ \E actor \in Actors : OrderList(actor)

SpecAccess == InitAccess /\ [][NextAccess]_vars

-----------------------------------------------------------------------------
(* Properties of access control (checked under SpecAccess).                *)

\* Offer o or one of its details differs between the two states of a step.
OfferTouched(o) ==
    \/ o \notin DOMAIN offers'
    \/ offers'[o] # offers[o]
    \/ \E d \in DetailsOf(o) : d \notin DOMAIN details' \/ details'[d] # details[d]

\* C11: an offer or one of its details is modified or deleted only by a
\* successful PATCH, PUT or DELETE of the offer's owner; a PATCH, PUT or
\* DELETE by any other actor, authenticated or not, is denied and leaves the
\* offers and details unchanged; a read of one offer is allowed to every
\* authenticated actor and the offer list to every actor.
C11_OnlyOwnerWritesOffer ==
    /\ [][ \A o \in DOMAIN offers : OfferTouched(o) =>
             /\ resp'.outcome = "ok"
             /\ \/ \E data \in OfferPatchPayloads :
                       \/ OfferPatch(offers[o].owner, o, data)
                       \/ OfferPut(offers[o].owner, o, data)
                \/ OfferDelete(offers[o].owner, o) ]_vars
    /\ [][ resp'.op \in {"offer_patch", "offer_put", "offer_delete"} =>
             \A actor \in Actors, o \in DOMAIN offers :
                 ( /\ actor # offers[o].owner
                   /\ \/ \E data \in OfferPatchPayloads :
                            OfferPatch(actor, o, data) \/ OfferPut(actor, o, data)
                      \/ OfferDelete(actor, o) )
                     => /\ resp'.outcome \in {"NotAuthenticated", "PermissionDenied"}
                        /\ offers' = offers
                        /\ details' = details ]_vars
    /\ [][ resp'.op = "offer_retrieve" =>
             \A actor \in DOMAIN users, o \in DOMAIN offers :
                 OfferRetrieve(actor, o) => (resp'.outcome = "ok" /\ resp'.rows = <<o>>) ]_vars
    /\ [][ resp'.op = "offer_list" =>
             \A actor \in Actors :
                 OfferList(actor) =>
                     (resp'.outcome = "ok" /\ Range(resp'.rows) = DOMAIN offers) ]_vars

\* C11 witness: a PATCH by an authenticated actor who is not the owner was
\* denied on an offer whose title its owner had changed before.
C11_Witness ==
    /\ resp = Response("offer_patch", "PermissionDenied", "owner", 0)
    /\ \E o \in DOMAIN offers : offers[o].title = "t2"

\* C12: in every reachable state the owner of every Offer is a user whose
\* role, read from the direct type field or from the profile, is business;
\* a create sets the owner to the acting user, and no step changes the owner
\* of an offer or the type of a user or of a profile.
C12_OwnerIsBusiness ==
    /\ [](\A o \in DOMAIN offers :
             /\ offers[o].owner \in DOMAIN users
             /\ _user_matches_role(offers[o].owner, {S_business, S_biz}, {2}))
    /\ [][ resp'.op = "offer_create" =>
             \A actor \in Actors, data \in OfferCreatePayloads, f \in BOOLEAN :
                 OfferCreate(actor, data, f) =>
                     \A o \in DOMAIN offers' \ DOMAIN offers : offers'[o].owner = actor ]_vars
    /\ [][ /\ \A o \in DOMAIN offers \cap DOMAIN offers' : offers'[o].owner = offers[o].owner
           /\ \A u \in DOMAIN users :
                  /\ u \in DOMAIN users'
                  /\ users'[u].type = users[u].type
                  /\ users'[u].profile = users[u].profile ]_vars

\* C12 witness: a customer was refused an offer create while an offer of the
\* user whose business role comes from the profile is persisted.
C12_Witness ==
    /\ resp = Response("offer_create", "PermissionDenied", "role", 0)
    /\ \E o \in DOMAIN offers : offers[o].owner = 3

\* C13: the order list returned to an authenticated actor A holds exactly
\* the Orders with customer_user = A or business_user = A, each once; an
\* unauthenticated actor is turned away and receives no orders.
C13_OrderListOwnOrders ==
    [][ resp'.op = "order_list" =>
          \A actor \in Actors : OrderList(actor) =>
              IF actor \in DOMAIN users
              THEN /\ resp'.outcome = "ok"
                   /\ Range(resp'.rows) =
                        {k \in DOMAIN orders : \/ orders[k].customer_user = actor
                                               \/ orders[k].business_user = actor}
                   /\ Cardinality(Range(resp'.rows)) = Len(resp'.rows)
              ELSE /\ resp'.outcome = "NotAuthenticated"
                   /\ "rows" \notin DOMAIN resp' ]_vars

\* C13 witness: a business received one of two persisted orders in its list:
\* the one in which it is the business party.
C13_Witness ==
    /\ resp.op = "order_list"
    /\ resp.outcome = "ok"
    /\ Len(resp.rows) = 1
    /\ orders[resp.rows[1]].business_user \in {1, 3}
    /\ Cardinality(DOMAIN orders) = 2

\* C14: the status of an Order changes only through a successful PATCH of
\* the order's business_user, who passes the business role gate; an Order is
\* deleted only by a successful DELETE of a staff user.  A PATCH by any other
\* actor (the order's customer, another business user, an unauthenticated
\* actor) and a DELETE by a non-staff actor are denied and change no order.
C14_OrderWriteGates ==
    /\ [][ \A k \in DOMAIN orders \cap DOMAIN orders' :
               orders'[k].status # orders[k].status =>
                   /\ resp'.op = "order_patch" /\ resp'.outcome = "ok"
                   /\ _user_matches_role(orders[k].business_user, {S_business, S_biz}, {2})
                   /\ \E data \in OrderPatchPayloads :
                          OrderPatch(orders[k].business_user, k, data) ]_vars
    /\ [][ \A k \in DOMAIN orders \ DOMAIN orders' :
               /\ resp'.op = "order_delete" /\ resp'.outcome = "ok"
               /\ \E actor \in StaffIds \cap DOMAIN users : OrderDelete(actor, k) ]_vars
    /\ [][ resp'.op = "order_patch" =>
             \A actor \in Actors, k \in DOMAIN orders :
                 ( /\ \/ actor # orders[k].business_user
                      \/ actor \notin DOMAIN users
                      \/ ~_user_matches_role(actor, {S_business, S_biz}, {2})
                   /\ \E data \in OrderPatchPayloads : OrderPatch(actor, k, data) )
                     => /\ resp'.outcome \in {"NotAuthenticated", "PermissionDenied"}
                        /\ orders' = orders ]_vars
    /\ [][ resp'.op = "order_delete" =>
             \A actor \in Actors \ StaffIds, k \in DOMAIN orders :
                 OrderDelete(actor, k)
                     => /\ resp'.outcome \in {"NotAuthenticated", "PermissionDenied"}
                        /\ orders' = orders ]_vars

\* C14 witness: a business user that is not the order's business party was
\* denied a status PATCH on an order its own business party had completed.
C14_Witness ==
    /\ resp = Response("order_patch", "PermissionDenied", "owner", 0)
    /\ \E k \in DOMAIN orders : orders[k].status = STATUS_COMPLETED

-----------------------------------------------------------------------------
(* SpecReviewAccess: the review handlers of SpecReviews with the update.   *)

(* A review PATCH payload: `keys` is the set of keys of the JSON body. *)
NoReviewPatch == [keys |-> {}, rating |-> 0, description |-> "", business_user |-> 0]

ReviewPatchPayloads ==
    { [NoReviewPatch EXCEPT !.keys = {"rating"}, !.rating = 2],
      [NoReviewPatch EXCEPT !.keys = {"rating", "description"}, !.rating = 6,
                            !.description = "x"],
      [NoReviewPatch EXCEPT !.keys = {"description"}, !.description = "x"],
      [NoReviewPatch EXCEPT !.keys = {"rating", "business_user"}, !.rating = 2,
                            !.business_user = 1],
      NoReviewPatch }

\* reviews/api/serializers.py: ReviewUpdateSerializer.validate, after the
\* field validation of rating (1..5)
ReviewUpdateSerializer_is_valid(data) ==
    IF "rating" \in data.keys /\ (data.rating < 1 \/ data.rating > 5) THEN "rating_range"
    ELSE IF data.keys \ {"rating", "description"} # {} THEN "unexpected_fields"
    ELSE IF data.keys \cap {"rating", "description"} = {} THEN "nothing_to_update"
    ELSE "ok"

\* ModelSerializer.update with Meta.fields = ["rating", "description"]
ReviewUpdateSerializer_update(r, data) ==
    [reviews EXCEPT ![r] = [f \in DOMAIN reviews[r] |->
        IF f \in {"rating", "description"} /\ f \in data.keys THEN data[f]
        ELSE reviews[r][f]]]

\* PATCH /api/reviews/<id>/  (ReviewUpdateDestroyView, permissions
\* IsAuthenticated and IsReviewOwner, serializer ReviewUpdateSerializer)
ReviewPatch(actor, r, data) ==
    /\ steps < MaxReviewSteps
    /\ steps' = steps + 1
    /\ IF ~_user_is_authenticated(actor)
       THEN /\ resp' = Response("review_patch", "NotAuthenticated", "", 0)
            /\ Unchanged_rows
       ELSE IF r \notin DOMAIN reviews
       THEN /\ resp' = Response("review_patch", "NotFound", "", 0)
            /\ Unchanged_rows
       ELSE IF ~IsReviewOwner_object(actor, r)
       THEN /\ resp' = Response("review_patch", "PermissionDenied", "owner", 0)
            /\ Unchanged_rows
       ELSE IF ReviewUpdateSerializer_is_valid(data) # "ok"
       THEN /\ resp' = Response("review_patch", "ValidationError",
                                ReviewUpdateSerializer_is_valid(data), 0)
            /\ Unchanged_rows
       ELSE /\ reviews' = ReviewUpdateSerializer_update(r, data)
            /\ resp' = Response("review_patch", "ok", "", 1)
            /\ UNCHANGED <<users, offers, details, orders, pending, seq>>

(* The request bodies of SpecReviewAccess. *)
AccessReviewInputs == [business_user : {1, 3}, rating : {4}]

AccessReviewCreateBodies(actor) ==
    IF IsCustomerUser(actor) THEN AccessReviewInputs
    ELSE {CHOOSE data \in AccessReviewInputs : TRUE}

AccessReviewPatchBodies(actor, r) ==
    IF _user_is_authenticated(actor) /\ r \in DOMAIN reviews /\ IsReviewOwner_object(actor, r)
    THEN ReviewPatchPayloads
    ELSE {NoReviewPatch}

NextReviewAccess ==
    \/ \E actor \in Actors : \E data \in AccessReviewCreateBodies(actor) :
           ReviewCreateValidate(actor, data)
    \/ \E q \in DOMAIN pending : ReviewCreateSave(q)
    \/ \E actor \in Actors, r \in DOMAIN reviews \cup {seq.review} :
           \E data \in AccessReviewPatchBodies(actor, r) : ReviewPatch(actor, r, data)
    \/ \E actor \in Actors, r \in DOMAIN reviews \cup {seq.review} :
           ReviewDelete(actor, r)

SpecReviewAccess == Init /\ [][NextReviewAccess]_vars

\* C15: a Review is created only by the save of a request whose actor
\* passed the customer role gate, with reviewer set to that actor; it is
\* changed or deleted only by a successful PATCH or DELETE of its reviewer.
\* A create by an actor that fails the customer gate, and a PATCH or DELETE
\* by any actor other than the reviewer, the reviewed business user included,
\* are denied and leave the reviews as they were.
C15_ReviewWriteGates ==
    /\ [](\A q \in DOMAIN pending :
             /\ pending[q].actor \in DOMAIN users
             /\ _user_matches_role(pending[q].actor, {S_customer}, {}))
    /\ [][ \A r \in DOMAIN reviews' \ DOMAIN reviews :
               /\ resp'.op = "review_create" /\ resp'.outcome = "ok"
               /\ \E q \in DOMAIN pending :
                      /\ pending[q].actor = reviews'[r].reviewer
                      /\ ReviewCreateSave(q) ]_vars
    /\ [][ \A r \in DOMAIN reviews :
               (r \notin DOMAIN reviews' \/ reviews'[r] # reviews[r]) =>
                   /\ resp'.outcome = "ok"
                   /\ \/ \E data \in ReviewPatchPayloads :
                             ReviewPatch(reviews[r].reviewer, r, data)
                      \/ ReviewDelete(reviews[r].reviewer, r) ]_vars
    /\ [][ resp'.op = "review_create" =>
             \A actor \in Actors, data \in ReviewInputs :
                 ( /\ \/ actor \notin DOMAIN users
                      \/ ~_user_matches_role(actor, {S_customer}, {})
                   /\ ReviewCreateValidate(actor, data) )
                     => /\ resp'.outcome \in {"NotAuthenticated", "PermissionDenied"}
                        /\ reviews' = reviews
                        /\ pending' = pending ]_vars
    /\ [][ resp'.op \in {"review_patch", "review_delete"} =>
             \A actor \in Actors, r \in DOMAIN reviews :
                 ( /\ actor # reviews[r].reviewer
                   /\ \/ \E data \in ReviewPatchPayloads : ReviewPatch(actor, r, data)
                      \/ ReviewDelete(actor, r) )
                     => /\ resp'.outcome \in {"NotAuthenticated", "PermissionDenied"}
                        /\ reviews' = reviews ]_vars

\* C15 witness: an authenticated actor other than the reviewer was denied the
\* delete of a review whose reviewer had changed its rating before.
C15_Witness ==
    /\ resp = Response("review_delete", "PermissionDenied", "owner", 0)
    /\ \E r \in DOMAIN reviews : reviews[r].rating = 2

-----------------------------------------------------------------------------
(* SpecProfiles: the profile endpoint.  A user row carries username,       *)
(* email, first_name and last_name next to its role; its profile row       *)
(* carries its own primary key and the editable columns.  Emails are       *)
(* sequences of characters, so that strip() and the case-insensitive       *)
(* comparison are computed.                                                *)

MaxProfileSteps == 4

Email_a       == <<"a","@","x">>
Email_a_upper == <<"A","@","x">>
Email_b       == <<"b","@","x">>
Email_c       == <<"c","@","x">>
Email_d       == <<"d","@","x">>
Email_d_upper == <<"D","@","x">>
Email_d_host  == <<"d","@","X">>
Email_blank   == <<" ">>
Email_bad     == <<"d","x">>

\* The editable columns of a Profile, in the order update() walks them.
ProfileFields == <<"file", "location", "tel", "description", "working_hours">>
\* The columns of the linked User that update() walks.
ProfileUserFields == <<"first_name", "last_name", "email">>

\* userprofile/models.py: Profile (id is the row's own primary key, the
\* user_id is the key of `users` under which the row is stored)
AccountProfile(id, t) ==
    [ exists |-> TRUE, id |-> id, type |-> t, file |-> "", location |-> "",
      tel |-> "", description |-> "", working_hours |-> "" ]

\* authentication/models.py: User
AccountUser(t, p, username, email) ==
    [ type |-> t, profile |-> p, username |-> username, email |-> email,
      first_name |-> "", last_name |-> "" ]

\* Two users whose profile rows were inserted in the reverse order of the
\* users, and a user without a profile row.
ProfileUsers ==
    (1 :> AccountUser(PyStr(S_business), AccountProfile(2, PyStr(S_business)),
                      <<"k">>, Email_a)) @@
    (2 :> AccountUser(PyStr(S_customer), AccountProfile(1, PyStr(S_customer)),
                      <<"l">>, Email_b)) @@
    (3 :> AccountUser(PyStr(S_customer), NoProfile, <<"m">>, Email_c))

(* A profile PATCH/PUT payload: `keys` is the set of keys of the body. *)
NoProfilePatch ==
    [ keys |-> {}, first_name |-> "", last_name |-> "", email |-> <<>>,
      file |-> "", location |-> "", tel |-> "", description |-> "",
      working_hours |-> "" ]

ProfilePatchPayloads ==
    { [NoProfilePatch EXCEPT !.keys = {"first_name", "location"},
                             !.first_name = "Ann", !.location = "Rome"],
      [NoProfilePatch EXCEPT !.keys = {"email"}, !.email = Email_b],
      [NoProfilePatch EXCEPT !.keys = {"email"}, !.email = Email_a_upper],
      [NoProfilePatch EXCEPT !.keys = {"email", "tel"}, !.email = Email_d, !.tel = "555"],
      [NoProfilePatch EXCEPT !.keys = {"email", "last_name"}, !.email = Email_blank,
                             !.last_name = "Lee"],
      [NoProfilePatch EXCEPT !.keys = {"email", "last_name"}, !.email = Email_bad,
                             !.last_name = "Lee"] }

\* Django's __iexact lookup on two strings
iexact(a, b) == StrLower(a) = StrLower(b)

\* serializers.EmailField(allow_blank=True).run_validation: the value is
\* stripped; a blank value is returned as ""; otherwise the EmailValidator
\* asks for one "@" with text on both sides.
EmailField_is_valid(value) ==
    LET s == StrStrip(value)
        ats == {i \in 1..Len(s) : s[i] = "@"}
    IN  \/ s = <<>>
        \/ /\ Cardinality(ats) = 1
           /\ \A i \in ats : 1 < i /\ i < Len(s)

\* userprofile/api/serializers.py: ProfileSerializer.validate for the
\* profile of user uid: the validated data, or ok = FALSE when the email is
\* taken.
ProfileSerializer_validate(uid, data) ==
    IF "email" \notin data.keys THEN [ok |-> TRUE, data |-> data]
    ELSE LET normalized == StrStrip(data.email)
         IN  IF normalized = <<>>
             THEN [ok |-> TRUE, data |-> [data EXCEPT !.keys = @ \ {"email"}]]
             ELSE IF \E v \in DOMAIN users \ {uid} : iexact(users[v].email, normalized)
             THEN [ok |-> FALSE, data |-> data]
             ELSE [ok |-> TRUE, data |-> [data EXCEPT !.email = normalized]]

\* ProfileSerializer.is_valid: the field validation, then validate()
ProfileSerializer_is_valid(uid, data) ==
    IF "email" \in data.keys /\ ~EmailField_is_valid(data.email)
    THEN [ok |-> FALSE, detail |-> "email_invalid", data |-> data]
    ELSE LET r == ProfileSerializer_validate(uid, data)
         IN  [ok |-> r.ok, detail |-> IF r.ok THEN "" ELSE "email_taken", data |-> r.data]

\* The unique index on auth user email compares the stored strings exactly.
EmailUniqueViolated(rows, uid, email) ==
    \E v \in DOMAIN rows \ {uid} : rows[v].email = email

\* userprofile/api/serializers.py: ProfileSerializer.update on the profile
\* of user uid, where instance is the profile row as get_object loaded it:
\* user.save(update_fields=...) writes the named user columns, and
\* instance.save() writes every column of the loaded profile row.  The first
\* statement fails on the unique index of email with an IntegrityError that
\* nothing catches.
ProfileSerializer_update(uid, instance, data) ==
    IF "email" \in data.keys /\ EmailUniqueViolated(users, uid, data.email)
    THEN [ outcome |-> "ServerError", detail |-> "IntegrityError", users |-> users,
           writes |-> 1 ]
    ELSE LET user == SetFields(users[uid], data, ProfileUserFields)
             row  == [user EXCEPT !.profile = SetFields(instance, data, ProfileFields)]
         IN  [ outcome |-> "ok", detail |-> "", users |-> [users EXCEPT ![uid] = row],
               writes |-> IF data.keys \cap Range(ProfileUserFields) = {} THEN 1 ELSE 2 ]

\* userprofile/api/views.py: ProfileRetrieveUpdateView.get_object: the
\* profile row whose user_id is the pk of the URL.  The override returns the
\* row without calling check_object_permissions, so has_object_permission
\* of IsProfileOwnerOrReadOnly is not evaluated by this view.
ProfileRetrieveUpdateView_get_object(pk) ==
    IF pk \in DOMAIN users /\ users[pk].profile.exists THEN pk ELSE Anon

\* core/permissions.py: IsProfileOwnerOrReadOnly.has_permission (inherited
\* from IsOwner)
IsProfileOwnerOrReadOnly_has_permission(actor) == _user_is_authenticated(actor)

\* GET /api/profile/<pk>/  (ProfileRetrieveUpdateView, permissions
\* IsAuthenticatedOnly and IsProfileOwnerOrReadOnly)
ProfileRetrieve(actor, pk) ==
    /\ steps < MaxProfileSteps
    /\ steps' = steps + 1
    /\ resp' = IF ~(IsAuthenticatedOnly(actor) /\ IsProfileOwnerOrReadOnly_has_permission(actor))
               THEN Response("profile_retrieve", "NotAuthenticated", "", 0)
               ELSE IF ProfileRetrieveUpdateView_get_object(pk) = Anon
               THEN Response("profile_retrieve", "NotFound", "", 0)
               ELSE ResponseListing("profile_retrieve", <<pk>>)
    /\ Unchanged_rows

\* PATCH and PUT /api/profile/<pk>/  (UpdateModelMixin.update; every field
\* of ProfileSerializer is optional, so the two methods validate alike)
ProfileUpdate(method, actor, pk, data) ==
    /\ steps < MaxProfileSteps
    /\ steps' = steps + 1
    /\ UNCHANGED <<offers, details, orders, reviews, pending, seq>>
    /\ IF ~(IsAuthenticatedOnly(actor) /\ IsProfileOwnerOrReadOnly_has_permission(actor))
       THEN /\ resp' = Response(method, "NotAuthenticated", "", 0)
            /\ users' = users
       ELSE IF ProfileRetrieveUpdateView_get_object(pk) = Anon
       THEN /\ resp' = Response(method, "NotFound", "", 0)
            /\ users' = users
       ELSE LET v == ProfileSerializer_is_valid(pk, data)
            IN  IF ~v.ok
                THEN /\ resp' = Response(method, "ValidationError", v.detail, 0)
                     /\ users' = users
                ELSE LET r == ProfileSerializer_update(pk, users[pk].profile, v.data)
                     IN  /\ resp' = Response(method, r.outcome, r.detail, r.writes)
                         /\ users' = r.users

InitProfiles ==
    /\ users = ProfileUsers
    /\ offers = <<>>
    /\ details = <<>>
    /\ orders = <<>>
    /\ reviews = <<>>
    /\ pending = <<>>
    /\ seq = [offer |-> 1, detail |-> 1, order |-> 1, review |-> 1, request |-> 1]
    /\ resp = NoResp
    /\ steps = 0

ProfileUpdateMethods == {"profile_patch", "profile_put"}

\* The user ids a request can name: every user and one id of no user.
ProfileKeys == DOMAIN users \cup {4}

ProfileUpdateBodies(actor, pk) ==
    IF _user_is_authenticated(actor) /\ ProfileRetrieveUpdateView_get_object(pk) # Anon
    THEN ProfilePatchPayloads
    ELSE {NoProfilePatch}

NextProfiles ==
    \/ \E actor \in Actors, pk \in ProfileKeys : ProfileRetrieve(actor, pk)
    \/ \E method \in ProfileUpdateMethods, actor \in Actors, pk \in ProfileKeys :
           \E data \in ProfileUpdateBodies(actor, pk) :
               ProfileUpdate(method, actor, pk, data)

SpecProfiles == InitProfiles /\ [][NextProfiles]_vars

\* C16: a profile, and the first_name, last_name and email of its linked
\* user, are modified only by a request whose actor is the linked user: an
\* update of the profile of user pk by any other authenticated actor is
\* denied and leaves every user and profile as it was; a read is answered
\* for every authenticated actor and refused to an unauthenticated one.
C16_OnlyOwnerWritesProfile ==
    /\ [][ resp'.op \in ProfileUpdateMethods =>
             \A actor \in DOMAIN users, pk \in DOMAIN users :
                 ( /\ actor # pk
                   /\ users[pk].profile.exists
                   /\ \E data \in ProfilePatchPayloads :
                          ProfileUpdate(resp'.op, actor, pk, data) )
                     => /\ resp'.outcome = "PermissionDenied"
                        /\ users' = users ]_vars
    /\ [][ resp'.op = "profile_retrieve" =>
             \A actor \in Actors, pk \in DOMAIN users :
                 (users[pk].profile.exists /\ ProfileRetrieve(actor, pk))
                     => IF actor = Anon THEN resp'.outcome = "NotAuthenticated"
                        ELSE resp'.outcome = "ok" ]_vars

-----------------------------------------------------------------------------
(* SpecAccounts: registrations and profile email updates.  Both handlers   *)
(* read the users in the validation of the serializer and write in save(); *)
(* the two are separate statements on the store, so other requests run     *)
(* between them.                                                           *)

MaxAccountSteps == 4

(* A registration payload. *)
RegistrationPayload(username, email, repeated_password, type) ==
    [ username |-> username, email |-> email, password |-> "pw",
      repeated_password |-> repeated_password, type |-> type ]

RegistrationPayloads ==
    { RegistrationPayload(<<"n">>, Email_d, "pw", S_customer),
      RegistrationPayload(<<"o">>, Email_d_upper, "pw", S_business),
      RegistrationPayload(<<"n">>, Email_d_host, "pw", S_customer),
      RegistrationPayload(<<"o">>, Email_a_upper, "pw", S_customer),
      RegistrationPayload(<<"K">>, Email_d, "pw", S_customer),
      RegistrationPayload(<<"n">>, Email_d, "px", S_customer),
      RegistrationPayload(<<"p">>, Email_bad, "pw", S_biz) }

\* authentication/models.py: User.USER_TYPE_CHOICES
USER_TYPE_CHOICES == {S_customer, S_business}

\* authentication/api/serializers.py: RegistrationSerializer.validate_username
validate_username(value) ==
    ~\E v \in DOMAIN users : iexact(users[v].username, value)

\* authentication/api/serializers.py: RegistrationSerializer.validate_email
validate_email(value) ==
    ~\E v \in DOMAIN users : iexact(users[v].email, value)

\* RegistrationSerializer.is_valid: every field is validated and the failing
\* fields are collected; validate() runs when no field failed.  The
\* passwords drawn pass Django's password validators.
RegistrationSerializer_is_valid(data) ==
    LET s == StrStrip(data.email)
        bad == {f \in {"username", "email", "type"} :
                   \/ f = "username" /\ ~validate_username(data.username)
                   \/ f = "email" /\ (s = <<>> \/ ~EmailField_is_valid(s) \/ ~validate_email(s))
                   \/ f = "type" /\ data.type \notin USER_TYPE_CHOICES}
    IN  IF bad # {} THEN [ok |-> FALSE, detail |-> "field_errors", fields |-> bad]
        ELSE IF data.password # data.repeated_password
        THEN [ok |-> FALSE, detail |-> "password_mismatch", fields |-> {"repeated_password"}]
        ELSE [ok |-> TRUE, detail |-> "", fields |-> {}]

\* django.contrib.auth BaseUserManager.normalize_email, called by
\* create_user: the part after the last "@" is lower-cased.
normalize_email(email) ==
    LET s == StrStrip(email)
        ats == {i \in 1..Len(s) : s[i] = "@"}
    IN  IF ats = {} THEN s
        ELSE LET k == CHOOSE i \in ats : \A j \in ats : j <= i
             IN  SubSeq(s, 1, k) \o StrLower(SubSeq(s, k + 1, Len(s)))

\* authentication/api/serializers.py: RegistrationSerializer.create inside
\* the view's transaction: the INSERT fails on the unique indexes of
\* username and email, which compare the stored strings exactly.  The
\* handler inserts the user row only.
RegistrationSerializer_create(data) ==
    LET email == normalize_email(data.email)
    IN  IF \E v \in DOMAIN users :
               users[v].username = data.username \/ users[v].email = email
        THEN [ ok |-> FALSE, users |-> users, seq |-> seq ]
        ELSE [ ok |-> TRUE,
               users |-> Insert(users, seq.user,
                                AccountUser(PyStr(data.type), NoProfile,
                                            data.username, email)),
               seq |-> [seq EXCEPT !.user = seq.user + 1] ]

\* POST /api/auth/register/, first part (RegistrationView.post, permission
\* AllowAny): serializer.is_valid()
RegistrationValidate(data) ==
    /\ steps < MaxAccountSteps
    /\ steps' = steps + 1
    /\ UNCHANGED <<users, offers, details, orders, reviews>>
    /\ LET v == RegistrationSerializer_is_valid(data)
       IN  IF ~v.ok
           THEN /\ resp' = ResponseNaming("register", "ValidationError", v.detail,
                                          v.fields, 0)
                /\ UNCHANGED <<pending, seq>>
           ELSE /\ Cardinality(DOMAIN pending) < MaxPending
                /\ pending' = Insert(pending, seq.request,
                                     [kind |-> "register", data |-> data])
                /\ seq' = [seq EXCEPT !.request = seq.request + 1]
                /\ resp' = Response("register_validate", "valid", "", 0)

\* POST /api/auth/register/, second part: serializer.save() in
\* transaction.atomic(), an IntegrityError answered with 400.
RegistrationSave(q) ==
    /\ q \in DOMAIN pending
    /\ pending[q].kind = "register"
    /\ steps < MaxAccountSteps
    /\ steps' = steps + 1
    /\ LET r == RegistrationSerializer_create(pending[q].data)
       IN  /\ users' = r.users
           /\ seq' = r.seq
           /\ resp' = IF r.ok THEN Response("register", "ok", "", 1)
                      ELSE Response("register", "BadRequest", "IntegrityError", 1)
    /\ pending' = Delete(pending, {q})
    /\ UNCHANGED <<offers, details, orders, reviews>>

\* PATCH /api/profile/<pk>/, first part: the permissions, get_object and
\* serializer.is_valid()
ProfileUpdateValidate(actor, pk, data) ==
    /\ steps < MaxAccountSteps
    /\ steps' = steps + 1
    /\ UNCHANGED <<users, offers, details, orders, reviews>>
    /\ IF ~(IsAuthenticatedOnly(actor) /\ IsProfileOwnerOrReadOnly_has_permission(actor))
       THEN /\ resp' = Response("profile_patch", "NotAuthenticated", "", 0)
            /\ UNCHANGED <<pending, seq>>
       ELSE IF ProfileRetrieveUpdateView_get_object(pk) = Anon
       THEN /\ resp' = Response("profile_patch", "NotFound", "", 0)
            /\ UNCHANGED <<pending, seq>>
       ELSE LET v == ProfileSerializer_is_valid(pk, data)
            IN  IF ~v.ok
                THEN /\ resp' = Response("profile_patch", "ValidationError", v.detail, 0)
                     /\ UNCHANGED <<pending, seq>>
                ELSE /\ Cardinality(DOMAIN pending) < MaxPending
                     /\ pending' = Insert(pending, seq.request,
                                          [ kind |-> "profile", pk |-> pk,
                                            instance |-> users[pk].profile,
                                            data |-> v.data ])
                     /\ seq' = [seq EXCEPT !.request = seq.request + 1]
                     /\ resp' = Response("profile_validate", "valid", "", 0)

\* PATCH /api/profile/<pk>/, second part: serializer.save()
ProfileUpdateSave(q) ==
    /\ q \in DOMAIN pending
    /\ pending[q].kind = "profile"
    /\ steps < MaxAccountSteps
    /\ steps' = steps + 1
    /\ LET r == ProfileSerializer_update(pending[q].pk, pending[q].instance,
                                         pending[q].data)
       IN  /\ users' = r.users
           /\ resp' = Response("profile_patch", r.outcome, r.detail, r.writes)
    /\ pending' = Delete(pending, {q})
    /\ UNCHANGED <<offers, details, orders, reviews, seq>>

InitAccounts ==
    /\ users = ProfileUsers
    /\ offers = <<>>
    /\ details = <<>>
    /\ orders = <<>>
    /\ reviews = <<>>
    /\ pending = <<>>
    /\ seq = [offer |-> 1, detail |-> 1, order |-> 1, review |-> 1, request |-> 1,
              user |-> 4]
    /\ resp = NoResp
    /\ steps = 0

AccountProfilePayloads ==
    { [NoProfilePatch EXCEPT !.keys = {"email"}, !.email = Email_d],
      [NoProfilePatch EXCEPT !.keys = {"email"}, !.email = Email_d_upper],
      [NoProfilePatch EXCEPT !.keys = {"email"}, !.email = Email_a],
      [NoProfilePatch EXCEPT !.keys = {"email", "last_name"}, !.email = Email_blank,
                             !.last_name = "Lee"] }

AccountProfileBodies(actor, pk) ==
    IF _user_is_authenticated(actor) /\ ProfileRetrieveUpdateView_get_object(pk) # Anon
    THEN AccountProfilePayloads
    ELSE {NoProfilePatch}

NextAccounts ==
    \/ \E data \in RegistrationPayloads : RegistrationValidate(data)
    \/ \E q \in DOMAIN pending : RegistrationSave(q)
    \/ \E actor \in {Anon, 1, 2}, pk \in DOMAIN users :
           \E data \in AccountProfileBodies(actor, pk) :
               ProfileUpdateValidate(actor, pk, data)
    \/ \E q \in DOMAIN pending : ProfileUpdateSave(q)

SpecAccounts == InitAccounts /\ [][NextAccounts]_vars

\* C17: in every reachable state, whatever the interleaving of registrations
\* and profile email updates, no two distinct users have emails that are
\* equal ignoring letter case.
C17_EmailsUniqueIgnoringCase ==
    \A u \in DOMAIN users, v \in DOMAIN users :
        u # v => StrLower(users[u].email) # StrLower(users[v].email)

-----------------------------------------------------------------------------
(* SpecCreates: the create handlers of offers, orders and reviews side by  *)
(* side.                                                                   *)

\* The review bodies of SpecCreates: a business, a customer, a user with a
\* business profile and an id of no user as targets.
CreatesReviewInputs == [business_user : 1..4, rating : {4}]

CreatesReviewBodies(actor) ==
    IF IsCustomerUser(actor) THEN CreatesReviewInputs
    ELSE {CHOOSE data \in CreatesReviewInputs : TRUE}

NextCreates ==
    \/ \E actor \in Actors : OfferCreate(actor, AccessCreatePayload, FALSE)
    \/ \E actor \in Actors : \E did \in OrderCreateBodies(actor) :
           OrderCreate(actor, did)
    \/ \E actor \in Actors : \E data \in CreatesReviewBodies(actor) :
           ReviewCreateValidate(actor, data)
    \/ \E q \in DOMAIN pending : ReviewCreateSave(q)

SpecCreates == Init /\ [][NextCreates]_vars

\* The target of a review create resolves to no user, or to a user that the
\* business gate does not take for a business.
MissingReviewTarget(data) ==
    \/ data.business_user \notin DOMAIN users
    \/ ~_user_matches_role(data.business_user, {S_business, S_biz}, {2})

-----------------------------------------------------------------------------
(* SpecAudit: the permission classes together with the records they hand   *)
(* to logger.info.  One user, whose two role fields are drawn from the     *)
(* representations a role can take, and the anonymous requester pass       *)
(* through the gates; the response keeps the actor, the decision and the   *)
(* records logged while it was taken.                                      *)

\* One call of logger.info in RolePermission.has_permission: the class name
\* and the three values interpolated into the message.
LogRecord(gate, user_id, user_type, profile_type) ==
    [gate |-> gate, user_id |-> user_id, user_type |-> user_type,
     profile_type |-> profile_type]

\* core/permissions.py: RolePermission.has_permission, with the records
\* logged: the decision of RolePermission_has_permission, and on the denial
\* of an authenticated user one record carrying getattr(user, "id"),
\* getattr(user, "user_type", None) and the type of the profile.
RolePermission_has_permission_logged(gate, actor, role_strings, role_numbers) ==
    IF ~_user_is_authenticated(actor) THEN [allowed |-> FALSE, log |-> <<>>]
    ELSE LET allowed == _user_matches_role(actor, role_strings, role_numbers)
         IN  [ allowed |-> allowed,
               log |-> IF allowed THEN <<>>
                       ELSE <<LogRecord(gate, actor, UserTypeAttr(actor),
                                        ProfileRole(actor))>> ]

\* core/permissions.py: IsBusinessUser / IsCustomerUser, with their records
IsBusinessUser_logged(actor) ==
    RolePermission_has_permission_logged("IsBusinessUser", actor, {S_business, S_biz}, {2})

IsCustomerUser_logged(actor) ==
    RolePermission_has_permission_logged("IsCustomerUser", actor, {S_customer}, {})

\* rest_framework.permissions.SAFE_METHODS
SAFE_METHODS == {"GET", "HEAD", "OPTIONS"}

\* core/permissions.py: IsOwner.has_object_permission
IsOwner_has_object_permission(actor, owner_id) == owner_id = actor

\* core/permissions.py: IsOwnerOrReadOnly.has_object_permission
IsOwnerOrReadOnly_has_object_permission(method, actor, owner_id) ==
    IF method \in SAFE_METHODS THEN TRUE
    ELSE IsOwner_has_object_permission(actor, owner_id)

\* The outcome of a permission evaluation as the response records it.
AuditResponse(op, actor, outcome, detail, log) ==
    [ op |-> op, outcome |-> outcome, detail |-> detail, fields |-> {}, writes |-> 0,
      actor |-> actor, log |-> log ]

\* A request evaluated by a role gate (has_permission of IsBusinessUser or
\* IsCustomerUser).
RoleGateEvaluation(op, actor, r) ==
    /\ resp' = IF r.allowed THEN AuditResponse(op, actor, "Allow", "", r.log)
               ELSE IF ~_user_is_authenticated(actor)
               THEN AuditResponse(op, actor, "Deny", "unauthenticated", r.log)
               ELSE AuditResponse(op, actor, "Deny", "role", r.log)
    /\ UNCHANGED <<users, offers, details, orders, reviews, pending, seq, steps>>

AuditBusinessGate(actor) ==
    RoleGateEvaluation("gate_business", actor, IsBusinessUser_logged(actor))

AuditCustomerGate(actor) ==
    RoleGateEvaluation("gate_customer", actor, IsCustomerUser_logged(actor))

\* A request on an object owned by owner_id, evaluated by IsOwner (IsReviewOwner)
\* or IsOwnerOrReadOnly (IsOfferOwner, IsProfileOwnerOrReadOnly):
\* has_permission, then has_object_permission.  Neither calls the logger.
AuditOwnerGate(read_only_bypass, method, actor, owner_id) ==
    /\ resp' = IF ~_user_is_authenticated(actor)
               THEN AuditResponse("gate_owner", actor, "Deny", "unauthenticated", <<>>)
               ELSE IF IF read_only_bypass
                       THEN IsOwnerOrReadOnly_has_object_permission(method, actor, owner_id)
                       ELSE IsOwner_has_object_permission(actor, owner_id)
               THEN AuditResponse("gate_owner", actor, "Allow", "", <<>>)
               ELSE AuditResponse("gate_owner", actor, "Deny", "owner", <<>>)
    /\ UNCHANGED <<users, offers, details, orders, reviews, pending, seq, steps>>

\* A request on an order whose business party is business_user_id, evaluated
\* by IsOrderBusinessUser: has_permission is IsBusinessUser().has_permission,
\* has_object_permission compares the ids and does not call the logger.
AuditOrderBusinessGate(actor, business_user_id) ==
    /\ LET r == IsBusinessUser_logged(actor)
       IN  resp' = IF ~_user_is_authenticated(actor)
                   THEN AuditResponse("gate_order_business", actor, "Deny",
                                      "unauthenticated", r.log)
                   ELSE IF ~r.allowed
                   THEN AuditResponse("gate_order_business", actor, "Deny", "role", r.log)
                   ELSE IF business_user_id # actor
                   THEN AuditResponse("gate_order_business", actor, "Deny", "owner", r.log)
                   ELSE AuditResponse("gate_order_business", actor, "Allow", "", r.log)
    /\ UNCHANGED <<users, offers, details, orders, reviews, pending, seq, steps>>

\* The request methods and the owner ids of the objects the gates are asked
\* about.
AuditMethods == {"GET", "PATCH", "DELETE"}
AuditOwnerIds == {1, 2}

InitAudit == InitRole

NextAudit ==
    \/ \E actor \in Actors : AuditBusinessGate(actor)
    \/ \E actor \in Actors : AuditCustomerGate(actor)
    \/ \E read_only_bypass \in BOOLEAN, method \in AuditMethods, actor \in Actors,
          owner_id \in AuditOwnerIds :
           AuditOwnerGate(read_only_bypass, method, actor, owner_id)
    \/ \E actor \in Actors, business_user_id \in AuditOwnerIds :
           AuditOrderBusinessGate(actor, business_user_id)

SpecAudit == InitAudit /\ [][NextAudit]_vars

\* C19: every Deny of a gate, be it for a missing authentication, a role
\* mismatch or an ownership mismatch, comes with a log record carrying the
\* id of the actor, and for an authenticated actor denied by a role gate
\* the record carries the role values that were examined: the direct role
\* field of the user and the role field of the profile.
C19_EveryDenyLogged ==
    (resp.op # "none" /\ resp.outcome = "Deny") =>
        \E i \in DOMAIN resp.log :
            /\ resp.log[i].user_id = resp.actor
            /\ resp.detail = "role" =>
                   /\ resp.log[i].user_type = UserRole(resp.actor)
                   /\ resp.log[i].profile_type = ProfileRole(resp.actor)

-----------------------------------------------------------------------------
(* The status of an order (Spec). *)

\* C20: in every reachable state every stored order has a status among
\* in_progress, completed and cancelled; an order that has just been created
\* has the status in_progress; and a status PATCH by the order's business
\* user whose status value is none of the three ends in a ValidationError
\* and leaves every order, its status included, as it was.
C20_OrderStatusDomain ==
    /\ [](\A k \in DOMAIN orders : orders[k].status \in STATUS_CHOICES)
    /\ [][ \A k \in DOMAIN orders' \ DOMAIN orders :
               orders'[k].status = STATUS_IN_PROGRESS ]_vars
    /\ [][ resp'.op = "order_patch" =>
             \A actor \in DOMAIN users, k \in DOMAIN orders :
                 OrderPatchAuthorised(actor, k) =>
                     \A data \in OrderPatchPayloads :
                         ( /\ "status" \in data.keys
                           /\ data.status \notin STATUS_CHOICES
                           /\ OrderPatch(actor, k, data) )
                             => /\ resp'.outcome = "ValidationError"
                                /\ orders' = orders ]_vars

\* C20 witness: an order that was moved to completed kept that status when a
\* PATCH asked for a status that is none of the three.
C20_Witness ==
    /\ resp = ResponseNaming("order_patch", "ValidationError", "status_invalid_choice",
                             {"status"}, 0)
    /\ \E k \in DOMAIN orders : orders[k].status = STATUS_COMPLETED

-----------------------------------------------------------------------------
(* SpecDetailBounds: offer creates and PATCHes whose details sit on and     *)
(* beyond the bounds of revisions, delivery_time_in_days, price and         *)
(* features.                                                                *)

\* A create payload whose basic detail is d.
BoundsCreate(d) ==
    [ title |-> "t1", description |-> "d1",
      details |-> <<d, DetailInput("standard"), DetailInput("premium")>> ]

BoundsCreatePayloads ==
    { BoundsCreate([DetailInput("basic") EXCEPT !.revisions = 0,
                        !.delivery_time_in_days = 1, !.price = 0, !.features = <<>>]),
      BoundsCreate([DetailInput("basic") EXCEPT !.revisions = -1]),
      BoundsCreate([DetailInput("basic") EXCEPT !.delivery_time_in_days = 0]),
      BoundsCreate([DetailInput("basic") EXCEPT !.price = -1]),
      BoundsCreate([DetailInput("basic") EXCEPT !.features = <<"logo", "">>]),
      BoundsCreate([DetailInput("basic") EXCEPT !.features = <<" ">>]) }

\* A PATCH payload that carries the one item `item`.
BoundsPatch(item) == [NoPatch EXCEPT !.keys = {"details"}, !.details = <<item>>]

BoundsPatchPayloads ==
    { BoundsPatch([NoItem EXCEPT !.keys = {"offer_type", "revisions", "price"},
                       !.offer_type = "standard", !.revisions = 0, !.price = 0]),
      BoundsPatch([NoItem EXCEPT !.keys = {"offer_type", "delivery_time_in_days", "features"},
                       !.offer_type = "premium", !.delivery_time_in_days = 1,
                       !.features = <<"seo">>]),
      BoundsPatch([NoItem EXCEPT !.keys = {"offer_type", "revisions"},
                       !.offer_type = "basic", !.revisions = -1]),
      BoundsPatch([NoItem EXCEPT !.keys = {"offer_type", "delivery_time_in_days"},
                       !.offer_type = "basic", !.delivery_time_in_days = 0]),
      BoundsPatch([NoItem EXCEPT !.keys = {"offer_type", "price"},
                       !.offer_type = "basic", !.price = -1]),
      BoundsPatch([NoItem EXCEPT !.keys = {"offer_type", "features"},
                       !.offer_type = "basic", !.features = <<"seo", " ">>]),
      [NoPatch EXCEPT !.keys = {"title", "details"}, !.title = "t2",
                      !.details = <<ItemBasicPrice,
                                    [NoItem EXCEPT !.keys = {"offer_type", "price"},
                                         !.offer_type = "standard", !.price = -1]>>] }

BoundsCreateBodies(actor) ==
    IF IsBusinessUser(actor) THEN BoundsCreatePayloads
    ELSE {CHOOSE data \in BoundsCreatePayloads : TRUE}

BoundsPatchBodies(actor, o) ==
    IF _user_is_authenticated(actor) /\ o \in DOMAIN offers /\ IsOfferOwner_object(actor, o)
    THEN BoundsPatchPayloads
    ELSE {NoPatch}

NextDetailBounds ==
    \/ \E actor \in Actors : \E data \in BoundsCreateBodies(actor) :
           OfferCreate(actor, data, FALSE)
    \/ \E actor \in Actors, o \in DOMAIN offers \cup {seq.offer} :
           \E data \in BoundsPatchBodies(actor, o) : OfferPatch(actor, o, data)

SpecDetailBounds == Init /\ [][NextDetailBounds]_vars

\* The values of revisions, delivery_time_in_days, price and features that
\* item d carries (all four for a detail, those of its keys for a PATCH
\* item) break a bound.
BreaksBounds(d, names) ==
    \/ "revisions" \in names /\ d.revisions < 0
    \/ "delivery_time_in_days" \in names /\ d.delivery_time_in_days < 1
    \/ "price" \in names /\ d.price < 0
    \/ "features" \in names /\ \E i \in 1..Len(d.features) : d.features[i] \in {"", " "}

\* C21: in every reachable state every stored OfferDetail has revisions >= 0,
\* delivery_time_in_days >= 1, price >= 0 and only non-empty strings as
\* features; an offer create, and an owner's PATCH, one of whose details
\* would break one of these bounds ends in a ValidationError and leaves the
\* offers and the details as they were.
C21_DetailBounds ==
    /\ [](\A d \in DOMAIN details :
              ~BreaksBounds(details[d], {"revisions", "delivery_time_in_days",
                                         "price", "features"}))
    /\ [][ resp'.op = "offer_create" =>
             \A actor \in DOMAIN users : _user_matches_role(actor, {S_business, S_biz}, {2}) =>
                 \A data \in BoundsCreatePayloads :
                     ( /\ \E i \in 1..Len(data.details) :
                              BreaksBounds(data.details[i],
                                           {"revisions", "delivery_time_in_days",
                                            "price", "features"})
                       /\ OfferCreate(actor, data, FALSE) )
                         => /\ resp'.outcome = "ValidationError"
                            /\ offers' = offers
                            /\ details' = details ]_vars
    /\ [][ resp'.op = "offer_patch" =>
             \A o \in DOMAIN offers, data \in BoundsPatchPayloads :
                 ( /\ \E i \in 1..Len(data.details) :
                          BreaksBounds(data.details[i], data.details[i].keys)
                   /\ OfferPatch(offers[o].owner, o, data) )
                     => /\ resp'.outcome = "ValidationError"
                        /\ offers' = offers
                        /\ details' = details ]_vars

\* C21 witness: an offer whose basic detail sits on every bound and whose
\* standard detail was patched onto the bounds is stored, and a PATCH with a
\* negative price was rejected.
C21_Witness ==
    /\ resp = Response("offer_patch", "ValidationError", "details_price_min", 0)
    /\ \E d \in DOMAIN details :
           /\ details[d].offer_type = "basic"
           /\ details[d].revisions = 0 /\ details[d].delivery_time_in_days = 1
           /\ details[d].price = 0 /\ details[d].features = <<>>
    /\ \E d \in DOMAIN details :
           details[d].offer_type = "standard" /\ details[d].price = 0

-----------------------------------------------------------------------------
(* The delete of an offer that has been ordered (Spec). *)

\* C22: the delete, by its owner, of an offer one of whose details is the
\* source detail of an order is blocked: the offer, its details and the
\* orders are the same after the request as before, the offer_detail of
\* every order resolves to a stored detail in every reachable state, and the
\* blocked delete is answered with a handled error outcome, not with an
\* unhandled failure.
C22_ProtectedDeleteHandled ==
    /\ [](\A k \in DOMAIN orders : orders[k].offer_detail \in DOMAIN details)
    /\ [][ resp'.op = "offer_delete" =>
             \A o \in DOMAIN offers :
                 (ProtectingOrders(o) # {} /\ OfferDelete(offers[o].owner, o))
                     => /\ offers' = offers
                        /\ details' = details
                        /\ orders' = orders
                        /\ resp'.outcome \notin {"ok", "ServerError"} ]_vars

-----------------------------------------------------------------------------
(* SpecMatcher: the role matchers as functions.  The direct role field of  *)
(* the one user is drawn from plain values and from structured values      *)
(* with up to three of the probe attributes; each action applies a matcher *)
(* to it and answers with its result.                                      *)

MatcherScalars == {PyNone, PyStr(S_business), PyStr(S_customer), PyInt(2)}

MatcherReprs == {S_business, <<" ","B","i","z">>, <<"o","b","j">>}

\* Structured values whose attributes hold plain values, and structured
\* values whose `value` attribute is itself structured.
MatcherObjects ==
    LET flat == UNION { { PyObj(a, r) : a \in [names -> MatcherScalars], r \in MatcherReprs } :
                        names \in SUBSET {"name", "value", "type"} }
    IN  flat \cup
        { PyObj("value" :> PyObj("name" :> c1 @@ "key" :> c2, <<"o","b","j">>), <<"o","b","j">>) :
            c1 \in MatcherScalars, c2 \in MatcherScalars }

MatcherCandidates ==
    MatcherScalars \cup {PyStr(<<" ","B","i","z"," ">>), PyInt(0)} \cup MatcherObjects

\* offers/api/permissions.py: IsBusinessUser._is_business
RECURSIVE _is_business(_)
_is_business(val) ==
    IF val.k = "none" THEN FALSE
    ELSE IF val.k = "str" THEN StrLower(StrStrip(val.s)) \in {S_business, S_biz}
    ELSE IF val.k = "int" THEN val.n \in {2}
    ELSE LET present == {i \in 1..Len(probe_attrs) : probe_attrs[i] \in DOMAIN val.attrs}
         IN  IF present # {}
             THEN _is_business(val.attrs[probe_attrs[
                      CHOOSE i \in present : \A j \in present : i <= j]])
             ELSE StrLower(StrStrip(val.repr)) \in {S_business, S_biz}

PyBool(b) == IF b THEN "True" ELSE "False"

\* _is_any_role applied with the role sets of IsBusinessUser
MatchBusiness ==
    /\ resp' = Response("is_any_role_business",
                        PyBool(_is_any_role(UserRole(1), {S_business, S_biz}, {2})), "", 0)
    /\ UNCHANGED <<users, offers, details, orders, reviews, pending, seq, steps>>

\* _is_any_role applied with the role sets of IsCustomerUser
MatchCustomer ==
    /\ resp' = Response("is_any_role_customer",
                        PyBool(_is_any_role(UserRole(1), {S_customer}, {})), "", 0)
    /\ UNCHANGED <<users, offers, details, orders, reviews, pending, seq, steps>>

\* IsBusinessUser._is_business of offers/api/permissions.py applied
MatchBusinessLegacy ==
    /\ resp' = Response("is_business", PyBool(_is_business(UserRole(1))), "", 0)
    /\ UNCHANGED <<users, offers, details, orders, reviews, pending, seq, steps>>

InitMatcher ==
    /\ users \in [{1} -> {User(c, NoProfile) : c \in MatcherCandidates}]
    /\ offers = <<>>
    /\ details = <<>>
    /\ orders = <<>>
    /\ reviews = <<>>
    /\ pending = <<>>
    /\ seq = [offer |-> 1, detail |-> 1, order |-> 1, review |-> 1, request |-> 1]
    /\ resp = NoResp
    /\ steps = 0

NextMatcher ==
    \/ MatchBusiness
    \/ MatchCustomer
    \/ MatchBusinessLegacy

SpecMatcher == InitMatcher /\ [][NextMatcher]_vars

\* The matcher as C23 states it: on a structured value the result is the
\* match of the value of the first probe attribute that is present, and the
\* stringification is consulted only when none is present.
RECURSIVE RoleMatcher_matches(_, _, _)
RoleMatcher_matches(candidate, acceptedStrings, acceptedNumbers) ==
    IF candidate.k = "none" THEN FALSE
    ELSE IF candidate.k = "str"
         THEN StrLower(StrStrip(candidate.s)) \in {StrLower(s) : s \in acceptedStrings}
    ELSE IF candidate.k = "int" THEN candidate.n \in acceptedNumbers
    ELSE LET present == {i \in 1..Len(probe_attrs) :
                             probe_attrs[i] \in DOMAIN candidate.attrs}
         IN  IF present # {}
             THEN RoleMatcher_matches(
                      candidate.attrs[probe_attrs[
                          CHOOSE i \in present : \A j \in present : i <= j]],
                      acceptedStrings, acceptedNumbers)
             ELSE StrLower(StrStrip(candidate.repr)) \in
                      {StrLower(s) : s \in acceptedStrings}

\* C23: the role matcher returns false for a null candidate, the membership
\* of the trimmed lower-cased form for a string, the membership in the
\* accepted numbers for an integer, for a structured value the match of the
\* value of the first present attribute of name, label, value, code, slug,
\* key, type (later attributes are not consulted), and otherwise the match of
\* the normalized stringification.
C23_FirstPresentAttribute ==
    /\ resp.op = "is_any_role_business" =>
           resp.outcome = PyBool(RoleMatcher_matches(UserRole(1), {S_business, S_biz}, {2}))
    /\ resp.op = "is_any_role_customer" =>
           resp.outcome = PyBool(RoleMatcher_matches(UserRole(1), {S_customer}, {}))

-----------------------------------------------------------------------------
(* The order of the permission stages (checked under SpecAccess).          *)

\* A request of `actor` to one of the gated operations of SpecAccess, with
\* any target and any body.
GatedRequest(actor) ==
    \/ \E data \in OfferCreatePayloads : OfferCreate(actor, data, FALSE)
    \/ \E o \in DOMAIN offers \cup {seq.offer}, data \in OfferPatchPayloads :
           OfferPatch(actor, o, data) \/ OfferPut(actor, o, data)
    \/ \E o \in DOMAIN offers \cup {seq.offer} :
           OfferDelete(actor, o) \/ OfferRetrieve(actor, o)
    \/ \E did \in DOMAIN details \cup {seq.detail} : OrderCreate(actor, did)
    \/ \E k \in DOMAIN orders \cup {seq.order} :
           \/ OrderDelete(actor, k)
           \/ \E data \in OrderPatchPayloads : OrderPatch(actor, k, data)
    \/ OrderList(actor)

DenyOutcomes == {"NotAuthenticated", "PermissionDenied"}

\* C24: a request passes the authentication check, then the role check, then
\* the object-level check and ends in one outcome.  An unauthenticated actor
\* is denied on every operation but the public ones (here the offer list);
\* an actor that fails the role gate of an order status PATCH is denied for
\* the role whether or not the order exists or is theirs and whatever the
\* body; a denied request writes nothing, and the only answers without any
\* gate are those of the offer list.
C24_GateStages ==
    /\ [][ GatedRequest(Anon) =>
               /\ resp' = Response(resp'.op, "NotAuthenticated", "", 0)
               /\ Unchanged_rows ]_vars
    /\ [][ resp'.op = "offer_list" => resp'.outcome = "ok" ]_vars
    /\ [][ resp'.op = "order_patch" =>
             \A actor \in DOMAIN users, k \in DOMAIN orders \cup {seq.order} :
                 ( /\ ~IsBusinessUser(actor)
                   /\ \E data \in OrderPatchPayloads : OrderPatch(actor, k, data) )
                     => /\ resp' = Response("order_patch", "PermissionDenied", "role", 0)
                        /\ Unchanged_rows ]_vars
    /\ [][ resp'.outcome \in DenyOutcomes => resp'.writes = 0 /\ Unchanged_rows ]_vars

\* C24 witness: a customer was denied the status PATCH for the role while
\* an order exists.
C24_Witness ==
    /\ resp = Response("order_patch", "PermissionDenied", "role", 0)
    /\ DOMAIN orders # {}

-----------------------------------------------------------------------------
(* SpecRace: requests on one offer that overlap.  A PATCH of an offer is   *)
(* two steps: the view loads the Offer row (get_object) and validates the  *)
(* body, and later update() runs in one transaction with the instance      *)
(* loaded in the first step.  An order create is two steps as well: the    *)
(* SELECT of the OfferDetail, and the INSERT of the Order built from the   *)
(* row that SELECT returned.  A request stays in `pending` when it is      *)
(* done, with done = TRUE.                                                 *)

MaxRaceRequests == 3

RaceTitle == [NoPatch EXCEPT !.keys = {"title"}, !.title = "t2"]
RaceDescription == [NoPatch EXCEPT !.keys = {"description"}, !.description = "d2"]
RaceBasicPrice ==
    [NoPatch EXCEPT !.keys = {"details"}, !.details =
        << [NoItem EXCEPT !.keys = {"offer_type", "price"},
                          !.offer_type = "basic", !.price = 7] >>]
RaceBasicRevisions ==
    [NoPatch EXCEPT !.keys = {"details"}, !.details =
        << [NoItem EXCEPT !.keys = {"offer_type", "revisions"},
                          !.offer_type = "basic", !.revisions = 4] >>]
RaceStandardSeveral ==
    [NoPatch EXCEPT !.keys = {"details"}, !.details =
        << [NoItem EXCEPT !.keys = {"offer_type", "title", "revisions", "price"},
                          !.offer_type = "standard", !.title = "pro",
                          !.revisions = 3, !.price = 25] >>]

RacePatchPayloads ==
    {RaceTitle, RaceDescription, RaceBasicPrice, RaceBasicRevisions, RaceStandardSeveral}

\* offers/api/serializers.py: OfferUpdateSerializer.update on an instance
\* loaded earlier: the fields of the body are set on the instance and
\* instance.save() writes every column of the instance; a detail is saved
\* with update_fields, which writes the fields named in the item only.
OfferUpdateSerializer_update_instance(o, instance, data) ==
    LET r == OfferUpdateSerializer_update(o, data)
    IN  IF r.ok
        THEN [r EXCEPT !.offers = [offers EXCEPT ![o] = SetFields(instance, data, OfferFields)]]
        ELSE r

\* PATCH /api/offers/<id>/, first part: permissions, get_object and
\* serializer.is_valid
RaceOfferPatchLoad(actor, o, data) ==
    /\ Cardinality(DOMAIN pending) < MaxRaceRequests
    /\ \A q \in DOMAIN pending : pending[q].data # data
    /\ IF ~_user_is_authenticated(actor)
       THEN /\ resp' = Response("offer_patch", "NotAuthenticated", "", 0)
            /\ UNCHANGED <<pending, seq>>
       ELSE IF o \notin DOMAIN offers
       THEN /\ resp' = Response("offer_patch", "NotFound", "", 0)
            /\ UNCHANGED <<pending, seq>>
       ELSE IF ~IsOfferOwner_object(actor, o)
       THEN /\ resp' = Response("offer_patch", "PermissionDenied", "owner", 0)
            /\ UNCHANGED <<pending, seq>>
       ELSE IF OfferUpdateSerializer_is_valid(data) # "ok"
       THEN /\ resp' = Response("offer_patch", "ValidationError",
                                OfferUpdateSerializer_is_valid(data), 0)
            /\ UNCHANGED <<pending, seq>>
       ELSE /\ pending' = Insert(pending, seq.request,
                            [ op |-> "offer_patch", actor |-> actor, target |-> o,
                              loaded |-> offers[o], data |-> data, done |-> FALSE ])
            /\ seq' = [seq EXCEPT !.request = seq.request + 1]
            /\ resp' = Response("offer_load", "valid", "", 0)
    /\ UNCHANGED <<users, offers, details, orders, reviews, steps>>

\* PATCH /api/offers/<id>/, second part: serializer.save()
RaceOfferPatchSave(q) ==
    /\ q \in DOMAIN pending
    /\ pending[q].op = "offer_patch" /\ ~pending[q].done
    /\ LET r == OfferUpdateSerializer_update_instance(pending[q].target, pending[q].loaded,
                                                      pending[q].data)
       IN  /\ offers' = r.offers
           /\ details' = r.details
           /\ resp' = IF r.ok THEN Response("offer_patch", "ok", "", r.writes)
                      ELSE Response("offer_patch", "ValidationError",
                                    "details_no_existing_offer_type", r.writes)
    /\ pending' = [pending EXCEPT ![q].done = TRUE]
    /\ UNCHANGED <<users, orders, reviews, seq, steps>>

\* create that reads the price again when the order is inserted
OrderFromLoaded_RereadsPrice(actor, did, od) ==
    [ customer_user |-> actor, business_user |-> offers[od.offer].owner,
      offer_detail |-> did, title |-> od.title, revisions |-> od.revisions,
      delivery_time_in_days |-> od.delivery_time_in_days,
      price |-> details[did].price,
      features |-> od.features, offer_type |-> od.offer_type,
      status |-> STATUS_IN_PROGRESS ]

\* orders/api/serializers.py: OrderCreateSerializer.create, lines 92-103:
\* every snapshot field is copied from od, the row the SELECT returned
OrderFromLoaded(actor, did, od) ==
    [ customer_user |-> actor, business_user |-> offers[od.offer].owner,
      offer_detail |-> did, title |-> od.title, revisions |-> od.revisions,
      delivery_time_in_days |-> od.delivery_time_in_days,
      price |-> od.price,
      features |-> od.features, offer_type |-> od.offer_type,
      status |-> STATUS_IN_PROGRESS ]

\* POST /api/orders/, first part: permissions, validation and the SELECT of
\* the OfferDetail (create, lines 76-90)
RaceOrderCreateLoad(actor, did) ==
    /\ Cardinality(DOMAIN pending) < MaxRaceRequests
    /\ \A q \in DOMAIN pending : pending[q].op # "order_create" \/ pending[q].target # did
    /\ IF ~_user_is_authenticated(actor)
       THEN /\ resp' = Response("order_create", "NotAuthenticated", "", 0)
            /\ UNCHANGED <<pending, seq>>
       ELSE IF ~IsCustomerUser(actor)
       THEN /\ resp' = Response("order_create", "PermissionDenied", "role", 0)
            /\ UNCHANGED <<pending, seq>>
       ELSE IF did < 1
       THEN /\ resp' = Response("order_create", "ValidationError", "offer_detail_id_min", 0)
            /\ UNCHANGED <<pending, seq>>
       ELSE IF did \notin DOMAIN details
       THEN /\ resp' = Response("order_create", "ValidationError", "offer_detail_not_found", 0)
            /\ UNCHANGED <<pending, seq>>
       ELSE IF actor = offers[details[did].offer].owner
       THEN /\ resp' = Response("order_create", "ValidationError", "own_offer", 0)
            /\ UNCHANGED <<pending, seq>>
       ELSE /\ pending' = Insert(pending, seq.request,
                            [ op |-> "order_create", actor |-> actor, target |-> did,
                              loaded |-> details[did], data |-> NoPatch, done |-> FALSE ])
            /\ seq' = [seq EXCEPT !.request = seq.request + 1]
            /\ resp' = Response("order_load", "valid", "", 0)
    /\ UNCHANGED <<users, offers, details, orders, reviews, steps>>

\* POST /api/orders/, second part: Order.objects.create (lines 92-103)
RaceOrderCreateInsert(q) ==
    /\ q \in DOMAIN pending
    /\ pending[q].op = "order_create" /\ ~pending[q].done
    /\ orders' = Insert(orders, seq.order,
                        OrderFromLoaded(pending[q].actor, pending[q].target, pending[q].loaded))
    /\ seq' = [seq EXCEPT !.order = seq.order + 1]
    /\ resp' = Response("order_create", "ok", "", 1)
    /\ pending' = [pending EXCEPT ![q].done = TRUE]
    /\ UNCHANGED <<users, offers, details, reviews, steps>>

\* Offer 1 of business user 1 with its three details has been created.
InitRace ==
    /\ users = MainUsers
    /\ offers = (1 :> [owner |-> 1, title |-> "t1", image |-> "", description |-> "d1"])
    /\ details = [ i \in 1..3 |->
                     DetailInput(<<"basic", "standard", "premium">>[i]) @@ [offer |-> 1] ]
    /\ orders = <<>>
    /\ reviews = <<>>
    /\ pending = <<>>
    /\ seq = [offer |-> 2, detail |-> 4, order |-> 1, review |-> 1, request |-> 1]
    /\ resp = NoResp
    /\ steps = 0

NextRace ==
    \/ \E actor \in {1, 2}, data \in RacePatchPayloads : RaceOfferPatchLoad(actor, 1, data)
    \/ \E q \in DOMAIN pending : RaceOfferPatchSave(q)
    \/ \E actor \in {1, 2}, did \in 1..2 : RaceOrderCreateLoad(actor, did)
    \/ \E q \in DOMAIN pending : RaceOrderCreateInsert(q)

SpecRace == InitRace /\ [][NextRace]_vars

\* The PATCH with body `data` has been saved.
RaceDone(data) ==
    \E q \in DOMAIN pending :
        pending[q].op = "offer_patch" /\ pending[q].data = data /\ pending[q].done

\* C25: two overlapping PATCH requests of the owner on one offer that change
\* different top-level fields (title, description) or different fields of
\* one detail (price, revisions of basic) both take effect: when both are
\* saved, both new values are persisted, under every interleaving.
C25_BothPatchesPersist ==
    /\ (RaceDone(RaceTitle) /\ RaceDone(RaceDescription))
           => (offers[1].title = "t2" /\ offers[1].description = "d2")
    /\ (RaceDone(RaceBasicPrice) /\ RaceDone(RaceBasicRevisions))
           => (details[1].price = 7 /\ details[1].revisions = 4)

\* The values a detail row holds in the fields an order copies.
SnapshotOf(row) == [f \in SnapshotFields |-> row[f]]

\* C30: an order created while a PATCH changes several fields of its detail
\* holds a point-in-time copy: its six snapshot fields are those of the
\* detail before the PATCH or those after it, never a mixture.  (The
\* standard detail is changed by one PATCH only, which sets its title,
\* revisions and price.)
C30_SnapshotPointInTime ==
    \A k \in DOMAIN orders :
        orders[k].offer_detail = 2 =>
            LET before == DetailInput("standard") @@ [offer |-> 1]
                after == ApplyDetailItem(before, RaceStandardSeveral.details[1])
            IN  SnapshotOf(orders[k]) \in {SnapshotOf(before), SnapshotOf(after)}

\* C30 witness: the order of the standard detail was inserted after the
\* PATCH had been saved, from a row read before it.
C30_Witness ==
    /\ resp = Response("order_create", "ok", "", 1)
    /\ RaceDone(RaceStandardSeveral)
    /\ \E k \in DOMAIN orders :
           /\ orders[k].offer_detail = 2
           /\ orders[k].price = 20
           /\ details[2].price = 25

-----------------------------------------------------------------------------
(* The two role gates on one user (checked under SpecRole, whose only user *)
(* takes every combination of direct role value and profile role value).   *)

\* C26: no authenticated user passes both the business role gate and the
\* customer role gate, whatever the direct role value of the user and the
\* role value of the attached profile: the user that a business-gate request
\* has allowed is not allowed by a customer-gate request.
C26_GatesExclusive ==
    [][ ~( /\ resp.op = "gate_business" /\ resp.outcome = "Allow"
           /\ resp'.op = "gate_customer" /\ resp'.outcome = "Allow" ) ]_vars

-----------------------------------------------------------------------------
(* The order-count queries, and SpecTargets: the three decisions "is this  *)
(* user a business" applied to the one user of InitRole.                   *)

\* orders/api/views.py: _BusinessUserValidatorMixin._get_and_validate_business_user
\* (user_type is no attribute of User, and the profile type is compared
\* with the string "business"; both failures raise NotFound, and the result
\* names the branch taken)
_get_and_validate_business_user(business_user_id) ==
    IF business_user_id \notin DOMAIN users THEN "user_missing"
    ELSE IF UserTypeAttr(business_user_id) = PyStr(S_business) THEN "ok"
    ELSE IF ProfileRole(business_user_id) = PyStr(S_business) THEN "ok"
    ELSE "not_business"

\* The response of a count query.
ResponseCount(op, n) == Response(op, "ok", "", 0) @@ [count |-> n]

\* Order.objects.filter(business_user_id=..., status=...).count()
CountOrders(business_user_id, status) ==
    Cardinality({k \in DOMAIN orders :
                    orders[k].business_user = business_user_id /\ orders[k].status = status})

\* GET /api/order-count/<business_user_id>/  (OrderInProgressCountView,
\* permission IsAuthenticated)
OrderInProgressCount(actor, business_user_id) ==
    /\ steps < MaxSteps
    /\ steps' = steps + 1
    /\ resp' = IF ~_user_is_authenticated(actor)
               THEN Response("order_count", "NotAuthenticated", "", 0)
               ELSE IF _get_and_validate_business_user(business_user_id) # "ok"
               THEN Response("order_count", "NotFound",
                             _get_and_validate_business_user(business_user_id), 0)
               ELSE ResponseCount("order_count",
                                  CountOrders(business_user_id, STATUS_IN_PROGRESS))
    /\ Unchanged_rows

\* GET /api/completed-order-count/<business_user_id>/
\* (OrderCompletedCountView, permission IsAuthenticated)
OrderCompletedCount(actor, business_user_id) ==
    /\ steps < MaxSteps
    /\ steps' = steps + 1
    /\ resp' = IF ~_user_is_authenticated(actor)
               THEN Response("completed_order_count", "NotAuthenticated", "", 0)
               ELSE IF _get_and_validate_business_user(business_user_id) # "ok"
               THEN Response("completed_order_count", "NotFound",
                             _get_and_validate_business_user(business_user_id), 0)
               ELSE ResponseCount("completed_order_count",
                                  CountOrders(business_user_id, STATUS_COMPLETED))
    /\ Unchanged_rows

\* ReviewCreateSerializer.validate_business_user applied to a target id
ReviewTargetRequest(value) ==
    /\ resp' = Response("validate_business_user", validate_business_user(value), "", 0)
    /\ UNCHANGED <<users, offers, details, orders, reviews, pending, seq, steps>>

NextTargets ==
    \/ \E actor \in DOMAIN users \cup {Anon} : BusinessGateRequest(actor)
    \/ \E value \in 1..2 : ReviewTargetRequest(value)
    \/ \E actor \in DOMAIN users \cup {Anon}, id \in 1..2 : OrderInProgressCount(actor, id)
    \/ \E actor \in DOMAIN users \cup {Anon}, id \in 1..2 : OrderCompletedCount(actor, id)

SpecTargets == InitRole /\ [][NextTargets]_vars

\* C27: the business role gate, the target check of a review create and the
\* target check of the two order-count queries agree on every user: user 1
\* is accepted as the target exactly when it passes the business role gate
\* (in particular a user with role business and no profile is accepted by
\* all three).
C27_BusinessDecisionsAgree ==
    /\ (resp.op = "gate_business" /\ users[1] = User(PyStr(S_business), NoProfile))
           => resp.outcome # "Deny" \/ resp.detail = "unauthenticated"
    /\ (resp.op = "validate_business_user" /\ resp.outcome # "business_user_not_found")
           => (resp.outcome = "ok" <=> IsBusinessUser(1))
    /\ ( /\ resp.op \in {"order_count", "completed_order_count"}
         /\ resp.outcome # "NotAuthenticated"
         /\ resp.detail # "user_missing" )
           => (resp.outcome = "ok" <=> IsBusinessUser(1))

-----------------------------------------------------------------------------
(* The order status PATCH without a status (checked under Spec).           *)

\* C28: an order status PATCH by the order's business party, who passes the
\* business role gate, with a body that has no status key (the empty object
\* included) ends in ValidationError and leaves the order unchanged; it
\* never ends in an unhandled failure.
C28_MissingStatusRejected ==
    [][ resp'.op = "order_patch" =>
          \A k \in DOMAIN orders :
              \A data \in {p \in OrderPatchPayloads : "status" \notin p.keys} :
                  ( /\ IsBusinessUser(orders[k].business_user)
                    /\ OrderPatch(orders[k].business_user, k, data) )
                      => /\ resp'.outcome = "ValidationError"
                         /\ orders' = orders ]_vars

-----------------------------------------------------------------------------
(* SpecCounts: offers, orders, status changes and the two count queries.   *)
(* User 4 is a business as registration leaves it: the role on the user    *)
(* row and no profile.                                                     *)

CountUsers == MainUsers @@ (4 :> User(PyStr(S_business), NoProfile))

InitCounts ==
    /\ users = CountUsers
    /\ offers = <<>>
    /\ details = <<>>
    /\ orders = <<>>
    /\ reviews = <<>>
    /\ pending = <<>>
    /\ seq = [offer |-> 1, detail |-> 1, order |-> 1, review |-> 1, request |-> 1]
    /\ resp = NoResp
    /\ steps = 0

CountTargets == DOMAIN users \cup {5}

NextCounts ==
    \/ \E actor \in {1, 4} : OfferCreate(actor, AccessCreatePayload, FALSE)
    \/ \E did \in DOMAIN details : OrderCreate(2, did)
    \/ \E actor \in {1, 2, 4}, k \in DOMAIN orders :
           \E data \in AccessOrderBodies(actor, k) : OrderPatch(actor, k, data)
    \/ \E actor \in {2, Anon}, id \in CountTargets : OrderInProgressCount(actor, id)
    \/ \E actor \in {2, Anon}, id \in CountTargets : OrderCompletedCount(actor, id)

SpecCounts == InitCounts /\ [][NextCounts]_vars

\* The orders of business user b with the given status.
OrdersOf(b, status) ==
    {k \in DOMAIN orders : orders[k].business_user = b /\ orders[k].status = status}

\* C29: for every business user B the order-count query returns the number
\* of orders with business_user = B and status in_progress and the
\* completed-order-count query the number with status completed, so that an
\* order created from a detail of B and a status PATCH to completed show in
\* the counts of B and of nobody else; a query for an id that is no user or
\* for a user that is not a business ends in NotFound.
C29_CountsMatchOrders ==
    /\ [][ resp'.op = "order_count" =>
             \A actor \in DOMAIN users, b \in CountTargets :
                 OrderInProgressCount(actor, b) =>
                     IF b \in DOMAIN users /\ IsBusinessUser(b)
                     THEN /\ resp'.outcome = "ok"
                          /\ resp'.count = Cardinality(OrdersOf(b, STATUS_IN_PROGRESS))
                     ELSE resp'.outcome = "NotFound" ]_vars
    /\ [][ resp'.op = "completed_order_count" =>
             \A actor \in DOMAIN users, b \in CountTargets :
                 OrderCompletedCount(actor, b) =>
                     IF b \in DOMAIN users /\ IsBusinessUser(b)
                     THEN /\ resp'.outcome = "ok"
                          /\ resp'.count = Cardinality(OrdersOf(b, STATUS_COMPLETED))
                     ELSE resp'.outcome = "NotFound" ]_vars

====
